---- MODULE Spec2Model ----
(***************************************************************************)
(* Model of the archive core of saten: the signature detector              *)
(* (file_checker.rs), the ZIP / RAR4 / RAR5 header walkers                 *)
(* (reader_zip.rs, reader_rar4.rs, reader_rar5.rs), the vint decoder, and  *)
(* the bounds-checked data-access primitives (compress_deflate.rs,         *)
(* archive_manager.rs).                                                    *)
(*                                                                         *)
(* A behaviour is one session over one resident byte buffer: the buffer is *)
(* drawn in Init, then the operations of the library are called on it.     *)
(* Buffer positions are 0-based as in the source; At(data, i) is data[i].  *)
(* A Rust panic (index out of range, failed assert, unwrap of an error,    *)
(* checked arithmetic overflow) is the outcome "Panic".                    *)
(*                                                                         *)
(* Beside the core the module holds the two front ends and the single-     *)
(* instance socket, each with a specification of its own: AppSpec (the     *)
(* library's AppState, PageManager and controllers), ViewerSpec            *)
(* (ImageViewer::update of main.rs with its asynchronous loads) and        *)
(* IpcSpec (try_become_primary of ipc.rs).                                 *)
(***************************************************************************)
EXTENDS Integers, Sequences, FiniteSets, TLC

VARIABLES
    buf,              \* the resident byte buffer (read-only during a session)
    input,            \* ghost: the description the buffer was built from
    overflow_checks,  \* build profile: TRUE = overflow panics, FALSE = wraps
    pc,               \* "idle" | "enter" | "zip" | "rar4" | "rar5" | "returned" | "sorted" | "finished"
    offset,           \* the walker's `offset` local
    files,            \* the caller's `files` vector
    result,           \* "none" | "Ok" | "CorruptedArchive" | "Panic"
    trace,            \* ghost: the blocks the walker has read, in order
    call,             \* the last primitive call and what it returned
    viewer,           \* main.rs: the ImageViewer of the running application
    state,            \* model::AppState, the state the lib's controller works on
    tasks,            \* the iced Tasks in flight: the bag of their messages
    op,               \* the last AppState / PageManager / view operation called
    procs,            \* ipc.rs: the processes inside try_become_primary
    socket            \* ipc.rs: the socket file ~/.saten.sock

\* the archive core, the two front ends and the start-up are modelled as
\* separate specifications; each leaves the variables of the others alone
core == <<buf, input, overflow_checks, pc, offset, files, result, trace, call>>

gui == <<viewer, state, tasks, op>>

ipc == <<procs, socket>>

vars == <<core, gui, ipc>>

(***************************************************************************)
(* Machine integers.  usize and u64 are one machine word; the model scales *)
(* the word to WordBits bits (TLC integers are 32-bit) and keeps every     *)
(* value read from a buffer well below it, so that the only overflows are  *)
(* the ones the code itself provokes (usize::MAX sentinels, u64 requests). *)
(***************************************************************************)
WordBits == 28

Word == 2 ^ WordBits

USIZE_MAX == Word - 1

U8_MAX == 255

Byte == 0 .. 255

At(data, i) == data[i + 1]

\* data[a..b] (Rust half-open range), for 0 <= a <= b <= len
Slice(data, a, b) == SubSeq(data, a + 1, b)

Max0(a) == IF a < 0 THEN 0 ELSE a

Min(a, b) == IF a < b THEN a ELSE b

\* little-endian field encoders used to build input buffers
LE16(n) == <<n % 256, n \div 256>>

LE32(n) == <<n % 256, (n \div 256) % 256, (n \div 65536) % 256, n \div 16777216>>

\* (buf[o+1] as u16) << 8 | (buf[o] as u16)
ReadU16(data, o) == At(data, o + 1) * 256 + At(data, o)

\* (buf[o+3] as u32) << 24 | (buf[o+2] as u32) << 16 | (buf[o+1] as u32) << 8 | buf[o]
ReadU32(data, o) ==
    At(data, o + 3) * 16777216 + At(data, o + 2) * 65536 + At(data, o + 1) * 256 + At(data, o)

(***************************************************************************)
(* std::str::from_utf8 succeeds: well-formed UTF-8 of one-, two- and       *)
(* three-byte sequences (the model's names use no four-byte sequences).    *)
(***************************************************************************)
IsCont(b) == b >= 128 /\ b <= 191

IsLead2(b) == b >= 194 /\ b <= 223

IsLead3(b) == b >= 224 /\ b <= 239

\* the second byte a three-byte lead admits (no overlong forms, no surrogates)
Second3(lead, b) ==
    IF lead = 224 THEN b >= 160 /\ b <= 191
    ELSE IF lead = 237 THEN b >= 128 /\ b <= 159
    ELSE IsCont(b)

\* every byte is ASCII, a lead followed by its continuation bytes, or a
\* continuation byte that a lead accounts for
IsUtf8(s) ==
    \A i \in 1 .. Len(s) :
        \/ s[i] < 128
        \/ IsLead2(s[i]) /\ i + 1 <= Len(s) /\ IsCont(s[i + 1])
        \/ IsLead3(s[i]) /\ i + 2 <= Len(s) /\ Second3(s[i], s[i + 1]) /\ IsCont(s[i + 2])
        \/ IsCont(s[i]) /\ i > 1 /\ (IsLead2(s[i - 1]) \/ IsLead3(s[i - 1]))
        \/ IsCont(s[i]) /\ i > 2 /\ IsLead3(s[i - 2]) /\ IsCont(s[i - 1])

(***************************************************************************)
(* Signatures                                                              *)
(***************************************************************************)
ZIP_SIGNATURE == <<80, 75, 3, 4>>

RAR4_SIGNATURE == <<82, 97, 114, 33, 26, 7, 0>>

RAR5_SIGNATURE == <<82, 97, 114, 33, 26, 7, 1, 0>>

\* The chain  data[i+1] == s2 && data[i+2] == s3 && ...  evaluated left to
\* right with short-circuit: an index past the end panics.
RECURSIVE MatchTail(_, _, _, _)
MatchTail(data, i, sig, k) ==
    IF k > Len(sig) THEN "match"
    ELSE IF i + (k - 1) >= Len(data) THEN "panic"
    ELSE IF At(data, i + (k - 1)) # sig[k] THEN "nomatch"
    ELSE MatchTail(data, i, sig, k + 1)

SetMin(S) == CHOOSE m \in S : \A x \in S : m <= x

NotFound == [found |-> FALSE, pos |-> 0, panic |-> FALSE]

ScanPanic == [found |-> FALSE, pos |-> 0, panic |-> TRUE]

\* for (i, d) in data.iter().enumerate() { if *d == sig[0] { if <chain> { break } } }
\* the scan ends at the first position whose chain matches or panics
ScanSig(data, sig) ==
    LET stops == {i \in 0 .. Len(data) - 1 :
                    At(data, i) = sig[1] /\ MatchTail(data, i, sig, 2) # "nomatch"}
    IN  IF stops = {} THEN NotFound
        ELSE IF MatchTail(data, SetMin(stops), sig, 2) = "panic" THEN ScanPanic
        ELSE [found |-> TRUE, pos |-> SetMin(stops), panic |-> FALSE]

check_rar5(data) == ScanSig(data, RAR5_SIGNATURE)

check_rar4(data) == ScanSig(data, RAR4_SIGNATURE)

check_zip(data) == ScanSig(data, ZIP_SIGNATURE)

check_file_type(data) ==
    LET r5 == check_rar5(data)
        r4 == check_rar4(data)
        z  == check_zip(data)
    IN  IF r5.panic THEN "Panic"
        ELSE IF r5.found THEN "Rar5"
        ELSE IF r4.panic THEN "Panic"
        ELSE IF r4.found THEN "Rar4"
        ELSE IF z.panic THEN "Panic"
        ELSE IF z.found THEN "Zip"
        ELSE "Unsupported"

(***************************************************************************)
(* Input buffers.  An input is a description (a record) and the buffer is  *)
(* its byte encoding, so that what a walker emits can be compared with     *)
(* what the archive holds.                                                 *)
(***************************************************************************)
MaxZipEntries == 2

Zeros(n) == [i \in 1 .. n |-> 0]

RECURSIVE Concat(_)
Concat(ss) == IF ss = <<>> THEN <<>> ELSE Head(ss) \o Concat(Tail(ss))

\* all sequences over S of length 1 .. n
RECURSIVE SeqsUpTo(_, _)
SeqsUpTo(S, n) ==
    IF n = 0 THEN {}
    ELSE LET shorter == SeqsUpTo(S, n - 1)
         IN  {<<x>> : x \in S} \cup shorter \cup {Append(s, x) : s \in shorter, x \in S}

\* A ZIP local file header and what follows it.  nlen and csize are the
\* declared lengths; in a well-formed entry they are Len(name) and Len(data).
ZE(method, name, extra, data, nlen, csize, ucsize) ==
    [method |-> method, name |-> name, extra |-> extra, data |-> data,
     nlen |-> nlen, csize |-> csize, ucsize |-> ucsize]

ZipEntryBytes(e) ==
    ZIP_SIGNATURE \o LE16(20) \o LE16(0) \o LE16(e.method) \o LE16(0) \o LE16(0)
    \o LE32(0) \o LE32(e.csize) \o LE32(e.ucsize) \o LE16(e.nlen) \o LE16(Len(e.extra))
    \o e.name \o e.extra \o e.data

ZipGood ==
    { ZE(0, <<97>>, <<>>, <<104, 105>>, 1, 2, 2),              \* "a" stored "hi"
      ZE(8, <<100, 47, 98>>, <<1, 2>>, <<7>>, 3, 1, 5),        \* "d/b" deflate, extra field
      ZE(9, <<99>>, <<>>, <<9>>, 1, 1, 3),                     \* deflate64
      ZE(12, <<195, 169>>, <<>>, <<80, 75, 3, 4>>, 2, 4, 4),   \* other method, 2-byte UTF-8 name
      ZE(0, <<100, 47>>, <<>>, <<>>, 2, 0, 0),                 \* directory placeholder "d/"
      ZE(0, <<>>, <<>>, <<4>>, 0, 1, 1),                       \* empty name, 31 bytes in all
      ZE(0, <<>>, <<>>, <<>>, 0, 0, 0) }                       \* bare 30-byte header

ZipBad ==
    { ZE(0, <<97>>, <<>>, <<1>>, 1, 9, 9),                     \* data range past the end
      ZE(0, <<255>>, <<>>, <<1>>, 1, 1, 1),                    \* name is not UTF-8
      ZE(0, <<97>>, <<>>, <<1>>, 40, 1, 1) }                   \* name range past the end

\* the start of a central directory, where a real local-header run ends
ZipCentralDir == <<80, 75, 1, 2>> \o Zeros(30)

\* bytes in front of the first local file header: none, or the start of a
\* self-extractor stub
ZipStubs == {<<>>, <<77, 90, 144>>}

ZipInputs ==
    { [kind |-> "zip", stub |-> <<>>, entries |-> es, tail |-> t, cut |-> 0] :
        es \in SeqsUpTo(ZipGood \cup ZipBad, MaxZipEntries),
        t \in {<<>>, ZipCentralDir} }
    \cup
    { [kind |-> "zip", stub |-> st, entries |-> <<e>>, tail |-> <<>>, cut |-> 0] :
        st \in ZipStubs, e \in ZipGood \cup ZipBad }

ZipBytes(in) ==
    in.stub \o Concat([i \in 1 .. Len(in.entries) |-> ZipEntryBytes(in.entries[i])]) \o in.tail

ZipWellFormed(in) ==
    /\ in.kind = "zip"
    /\ in.stub = <<>>
    /\ in.cut = 0
    /\ \A i \in 1 .. Len(in.entries) : in.entries[i] \in ZipGood

\* the offset at which entry i's header starts
RECURSIVE ZipHeaderStart(_, _)
ZipHeaderStart(es, i) ==
    IF i = 1 THEN 0 ELSE ZipHeaderStart(es, i - 1) + Len(ZipEntryBytes(es[i - 1]))

MaxTrace == 8

\* ghost: remember one more block read (the log stops growing at MaxTrace,
\* which only a walk that does not end can reach)
Logged(tr, e) == IF Len(tr) < MaxTrace THEN Append(tr, e) ELSE tr

(***************************************************************************)
(* ZipReader (reader_zip.rs)                                               *)
(***************************************************************************)
MemberFile(filepath, filename, off, size, fsize, ctype) ==
    [filepath |-> filepath, filename |-> filename, offset |-> off,
     size |-> size, fsize |-> fsize, ctype |-> ctype]

\* check_zipsign: (0, true) only for a buffer that starts with the signature
check_zipsign(data) ==
    IF Len(data) < 4 THEN [pos |-> 0, is_sign |-> FALSE]
    ELSE IF Slice(data, 0, 4) = ZIP_SIGNATURE THEN [pos |-> 0, is_sign |-> TRUE]
    ELSE [pos |-> 0, is_sign |-> FALSE]

\* variant: method 9 taken for Deflate
ZipCompressionType_Deflate9(comp) ==
    CASE comp = 0 -> "Uncompress"
      [] comp = 8 -> "Deflate"
      [] comp = 9 -> "Deflate"
      [] OTHER -> "Unsupported"

ZipCompressionType(comp) ==
    CASE comp = 0 -> "Uncompress"
      [] comp = 8 -> "Deflate"
      [] comp = 9 -> "Deflate64"
      [] OTHER -> "Unsupported"

\* the name-range check before the name slice is taken
ZipNameOutOfRange(data, o, fname_size) == o + fname_size > Len(data)

\* variant: a header that ends with the buffer is read
ZipTooShort_Header(data, o) == Len(data) < o + 30

\* the loop's exit test on the remaining bytes
ZipTooShort(data, o) == Len(data) <= o + 30

\* ZipReader::read_archive up to the loop
ZipStart ==
    /\ LET s == check_zipsign(buf)
       IN  IF s.is_sign
           THEN /\ pc' = "zip"
                /\ offset' = s.pos
                /\ result' = "none"
           ELSE /\ pc' = "returned"
                /\ offset' = 0
                /\ result' = "Ok"
    /\ files' = <<>>
    /\ trace' = <<>>

\* a call of ZipReader::read_archive with an empty files vector, by the
\* caller of the library or by the entry point that has selected this parser
ZipReadArchive ==
    /\ IF pc = "idle" THEN input.kind \in {"zip", "raw"} ELSE pc = "enter" /\ call.reader = "Zip"
    /\ ZipStart
    /\ call' = IF pc = "idle" THEN [fn |-> "ZipReader::read_archive"] ELSE call
    /\ UNCHANGED <<gui, ipc, buf, input, overflow_checks>>

\* one iteration of the loop of ZipReader::read_archive
ZipBlock ==
    /\ pc = "zip"
    /\ IF ZipTooShort(buf, offset)
       THEN /\ pc' = "returned" /\ result' = "Ok"
            /\ UNCHANGED <<offset, files, trace>>
       ELSE IF Slice(buf, offset, offset + 4) # ZIP_SIGNATURE
       THEN /\ pc' = "returned" /\ result' = "Ok"
            /\ UNCHANGED <<offset, files, trace>>
       ELSE LET comp       == ReadU16(buf, offset + 8)
                csize      == ReadU32(buf, offset + 18)
                ucsize     == ReadU32(buf, offset + 22)
                fname_size == ReadU16(buf, offset + 26)
                ex_length  == ReadU16(buf, offset + 28)
                name_pos   == offset + 30
                file_name  == Slice(buf, name_pos, name_pos + fname_size)
                data_offset == name_pos + fname_size + ex_length
            IN  IF ZipNameOutOfRange(buf, name_pos, fname_size) \/ ~IsUtf8(file_name)
                THEN /\ pc' = "returned" /\ result' = "CorruptedArchive"
                     /\ UNCHANGED <<offset, files, trace>>
                ELSE /\ offset' = data_offset + csize
                     /\ files' = IF csize > 0
                                 THEN Append(files, MemberFile(file_name, file_name, data_offset,
                                                 csize, ucsize, ZipCompressionType(comp)))
                                 ELSE files
                     /\ trace' = Logged(trace, [type |-> "zip", pos |-> offset,
                                                         next |-> data_offset + csize])
                     /\ UNCHANGED <<pc, result>>
    /\ UNCHANGED <<gui, ipc, buf, input, overflow_checks, call>>

(***************************************************************************)
(* Rar4Reader (reader_rar4.rs)                                             *)
(***************************************************************************)
\* bit `bit` (a power of two) of x is set
BitSet(x, bit) == (x \div bit) % 2 = 1

\* check_rarsign of reader_rar4.rs: scan for the RAR4 signature
rar4_check_rarsign(data) == ScanSig(data, RAR4_SIGNATURE)

\* hflags = (data[offset] as u16) << 8 | (data[offset] as u16), offset = pos + 3
Rar4HeaderFlags(data, pos) == At(data, pos + 3) * 256 + At(data, pos + 3)

\* check_headertype of reader_rar4.rs: (htype, hflags, hsize) of the 7-byte header
rar4_check_headertype(data, pos) ==
    IF Len(data) >= pos + 7
    THEN [htype  |-> At(data, pos + 2),
          hflags |-> Rar4HeaderFlags(data, pos),
          hsize  |-> ReadU16(data, pos + 5)]
    ELSE [htype |-> 0, hflags |-> 0, hsize |-> 0]

\* for i in offset..(offset+nsize) { if buf[i] == 0 { endpos = i; break; } }
\* endpos starts at `offset`; -1 stands for an index past the end (a panic)
Rar4NameEnd(data, start, stop) ==
    LET stops == {i \in start .. Min(stop, Len(data) + 1) - 1 :
                    i >= Len(data) \/ At(data, i) = 0}
    IN  IF stops = {} THEN start
        ELSE IF SetMin(stops) >= Len(data) THEN -1
        ELSE SetMin(stops)

\* the packed size the walker records and skips
Rar4PackSize(data, o) == ReadU32(data, o)

\* if (fattr & 0x20) != 0 { files.push(..) },
\* fattr = buf[o+1] << 24 | buf[o+1] << 16 | buf[o+1] << 8 | buf[o]
Rar4Emits(data, o) == BitSet(At(data, o), 32)

\* `offset += (hsize as usize) - 7`: the subtraction underflows for hsize < 7
\* (a panic with overflow checks; without, the two wraps cancel)
Rar4SkipHeader(o, hsize, oc) ==
    IF hsize < 7 /\ oc THEN [panic |-> TRUE, offset |-> o]
    ELSE [panic |-> FALSE, offset |-> o + hsize - 7]

\* the FILE_HEAD branch; o is the offset after the 7-byte header
Rar4FileHead(data, o, hflags, fs) ==
    IF o + 22 >= Len(data) THEN [panic |-> TRUE, offset |-> o, files |-> fs]
    ELSE
    LET psize  == Rar4PackSize(data, o)
        upsize == ReadU32(data, o + 4)
        nsize  == ReadU16(data, o + 19)
        large  == IF BitSet(hflags, 256) THEN 8 ELSE 0
        npos   == o + 25 + large
        endpos == Rar4NameEnd(data, npos, npos + nsize)
        salt   == IF BitSet(hflags, 1024) THEN 4 ELSE 0
        exttime == IF BitSet(hflags, 4096) THEN 4 ELSE 0
        data_offset == npos + nsize + salt + exttime + 9
    IN  IF endpos = -1 \/ npos > Len(data) THEN [panic |-> TRUE, offset |-> o, files |-> fs]
        ELSE LET file_name == Slice(data, npos, endpos)
             IN  IF ~IsUtf8(file_name) THEN [panic |-> TRUE, offset |-> o, files |-> fs]
                 ELSE [panic  |-> FALSE,
                       offset |-> data_offset + psize,
                       files  |-> IF Rar4Emits(data, o + 21)
                                  THEN Append(fs, MemberFile(file_name, file_name, data_offset,
                                                             psize, upsize, "Unset"))
                                  ELSE fs]

\* Rar4Reader::read_archive up to the loop
Rar4Start ==
    /\ LET s == rar4_check_rarsign(buf)
       IN  IF s.panic
           THEN /\ pc' = "returned" /\ offset' = 0 /\ result' = "Panic"
           ELSE IF s.found
           THEN /\ pc' = "rar4" /\ offset' = s.pos + 7 /\ result' = "none"
           ELSE /\ pc' = "returned" /\ offset' = 0 /\ result' = "Ok"
    /\ files' = <<>>
    /\ trace' = <<>>

\* a call of Rar4Reader::read_archive with an empty files vector, by the
\* caller of the library or by the entry point that has selected this parser
Rar4ReadArchive ==
    /\ IF pc = "idle" THEN input.kind \in {"rar4", "raw"} ELSE pc = "enter" /\ call.reader = "Rar4"
    /\ Rar4Start
    /\ call' = IF pc = "idle" THEN [fn |-> "Rar4Reader::read_archive"] ELSE call
    /\ UNCHANGED <<gui, ipc, buf, input, overflow_checks>>

\* one iteration of the loop of Rar4Reader::read_archive
Rar4Block ==
    /\ pc = "rar4"
    /\ IF Len(buf) <= offset + 7
       THEN /\ pc' = "returned" /\ result' = "Ok"
            /\ UNCHANGED <<offset, files, trace>>
       ELSE LET h == rar4_check_headertype(buf, offset)
                o == offset + 7
                r == CASE h.htype = 115 ->          \* MAIN_HEAD (0x73)
                            IF o + 5 >= Len(buf)
                            THEN [panic |-> TRUE, offset |-> o, files |-> files]
                            ELSE LET k == Rar4SkipHeader(o, h.hsize, overflow_checks)
                                 IN  [panic |-> k.panic, offset |-> k.offset, files |-> files]
                       [] h.htype = 116 ->          \* FILE_HEAD (0x74)
                            Rar4FileHead(buf, o, h.hflags, files)
                       [] h.htype = 122 ->          \* NEWSUB_HEAD (0x7a)
                            IF o + 3 >= Len(buf)
                            THEN [panic |-> TRUE, offset |-> o, files |-> files]
                            ELSE LET k == Rar4SkipHeader(o, h.hsize, overflow_checks)
                                 IN  [panic |-> k.panic, offset |-> k.offset + ReadU32(buf, o),
                                      files |-> files]
                       [] OTHER ->
                            LET k == Rar4SkipHeader(o, h.hsize, overflow_checks)
                            IN  [panic |-> k.panic, offset |-> k.offset, files |-> files]
            IN  IF r.panic
                THEN /\ pc' = "returned" /\ result' = "Panic"
                     /\ UNCHANGED <<offset, files, trace>>
                ELSE /\ offset' = r.offset
                     /\ files' = r.files
                     /\ trace' = Logged(trace, [type |-> h.htype, pos |-> offset,
                                                         next |-> r.offset])
                     /\ UNCHANGED <<pc, result>>
    /\ UNCHANGED <<gui, ipc, buf, input, overflow_checks, call>>

(***************************************************************************)
(* Rar5Reader (reader_rar5.rs)                                             *)
(***************************************************************************)
\* a + b on usize: -1 stands for the overflow panic of a checked build,
\* an unchecked build wraps
Add(a, b, oc) ==
    LET x == a + b
    IN  IF x > USIZE_MAX THEN (IF oc THEN -1 ELSE x - Word) ELSE x

\* a - b on usize, likewise
Sub(a, b, oc) ==
    LET x == a - b
    IN  IF x < 0 THEN (IF oc THEN -1 ELSE x + Word) ELSE x

\* (x << s) on a u64, x < 128
Shl(x, s) == IF s >= WordBits THEN 0 ELSE (x % (2 ^ (WordBits - s))) * (2 ^ s)

\* shift += 7
VintShiftStep == 7

\* assert!(offset < 10)
VintMaxLen == 10

\* the test that guards data[pos + offset]
VintPastEnd(len, idx) == len < idx

Panicked == [st |-> "panic", val |-> 0, len |-> 0]

\* read_vint: (val, offset + 1).  When the guard fires, offset is set to
\* u8::MAX and offset + 1 overflows the u8: a panic, or 0 in an unchecked build.
RECURSIVE ReadVintLoop(_, _, _, _, _, _)
ReadVintLoop(data, pos, off, val, shift, oc) ==
    LET idx == Add(pos, off, oc)
    IN  IF idx = -1 THEN Panicked
        ELSE IF VintPastEnd(Len(data), idx)
        THEN IF oc THEN Panicked ELSE [st |-> "ok", val |-> val, len |-> (U8_MAX + 1) % 256]
        ELSE IF idx >= Len(data) THEN Panicked
        ELSE LET d  == At(data, idx)
                 nv == val + Shl(d % 128, shift)
             IN  IF d < 128 THEN [st |-> "ok", val |-> nv, len |-> off + 1]
                 ELSE IF off + 1 >= VintMaxLen THEN Panicked
                 ELSE ReadVintLoop(data, pos, off + 1, nv, shift + VintShiftStep, oc)

\* variant: the first group shifted as the second
read_vint_Shifted(data, pos, oc) == ReadVintLoop(data, pos, 0, 0, VintShiftStep, oc)

read_vint(data, pos, oc) == ReadVintLoop(data, pos, 0, 0, 0, oc)

\* check_rarsign of reader_rar5.rs: the RAR5 chain, else the RAR4 chain
Rar5ChainAt(data, i) ==
    LET r5 == MatchTail(data, i, RAR5_SIGNATURE, 2)
    IN  IF r5 # "nomatch" THEN r5 ELSE MatchTail(data, i, RAR4_SIGNATURE, 2)

Rar5ScanSig(data) ==
    LET stops == {i \in 0 .. Len(data) - 1 :
                    At(data, i) = 82 /\ Rar5ChainAt(data, i) # "nomatch"}
    IN  IF stops = {} THEN NotFound
        ELSE IF Rar5ChainAt(data, SetMin(stops)) = "panic" THEN ScanPanic
        ELSE [found |-> TRUE, pos |-> SetMin(stops), panic |-> FALSE]

rar5_check_rarsign(data) == Rar5ScanSig(data)

\* A cursor over the header fields: st is "ok", "panic" or "fail" (the
\* function returns usize::MAX), off the local `offset`, v the values read
\* and l their lengths.
Cur(off) == [st |-> "ok", off |-> off, v |-> <<>>, l |-> <<>>]

\* (x, vintlen) = read_vint(&data, offset);
\* if vintlen == u8::MAX { return usize::MAX } offset += vintlen as usize;
RV(data, c, oc) ==
    IF c.st # "ok" THEN c
    ELSE LET r == read_vint(data, c.off, oc)
             n == Add(c.off, r.len, oc)
         IN  IF r.st = "panic" THEN [c EXCEPT !.st = "panic"]
             ELSE IF r.len = U8_MAX THEN [c EXCEPT !.st = "fail"]
             ELSE IF n = -1 THEN [c EXCEPT !.st = "panic"]
             ELSE [c EXCEPT !.off = n, !.v = Append(c.v, r.val), !.l = Append(c.l, r.len)]

\* an optional field that is absent: x = 0
NoV(c) == IF c.st # "ok" THEN c ELSE [c EXCEPT !.v = Append(c.v, 0), !.l = Append(c.l, 0)]

\* data[offset] .. data[offset+3] read by index, offset += 4
Skip4(data, c) ==
    IF c.st # "ok" THEN c
    ELSE IF c.off + 3 >= Len(data) THEN [c EXCEPT !.st = "panic"]
    ELSE [c EXCEPT !.off = c.off + 4]

\* offset += n as usize
Skip(c, n, oc) ==
    IF c.st # "ok" THEN c
    ELSE LET x == Add(c.off, n, oc)
         IN  IF x = -1 THEN [c EXCEPT !.st = "panic"] ELSE [c EXCEPT !.off = x]

\* One field of a header, in the order the code reads it: a vint, a vint
\* read only when bit `bit` of the value v[of] is set (else 0), or four
\* bytes read by index when that bit is set.
Vint == [kind |-> "vint", of |-> 0, bit |-> 0]

VintIf(of, bit) == [kind |-> "vint_if", of |-> of, bit |-> bit]

Bytes4If(of, bit) == [kind |-> "bytes4_if", of |-> of, bit |-> bit]

ReadField(data, c, f, oc) ==
    IF c.st # "ok" THEN c
    ELSE IF f.kind = "vint" THEN RV(data, c, oc)
    ELSE IF f.kind = "vint_if"
    THEN (IF BitSet(c.v[f.of], f.bit) THEN RV(data, c, oc) ELSE NoV(c))
    ELSE (IF BitSet(c.v[f.of], f.bit) THEN Skip4(data, c) ELSE c)

RECURSIVE ReadFields(_, _, _, _, _)
ReadFields(data, c, fields, k, oc) ==
    IF k > Len(fields) THEN c
    ELSE ReadFields(data, ReadField(data, c, fields[k], oc), fields, k + 1, oc)

\* the prologue shared by the check_header_* functions: crc, header size,
\* header type; v = <<hsize, htype>>, or <<0, 0>> for a buffer too short
Rar5Prologue(data, pos, oc) ==
    LET lim == Add(pos, 6, oc)
    IN  IF lim = -1 THEN [Cur(pos) EXCEPT !.st = "panic"]
        ELSE IF Len(data) >= lim
        THEN LET s == Add(pos, 4, oc)
             IN  IF s = -1 THEN [Cur(pos) EXCEPT !.st = "panic"]
                 ELSE RV(data, RV(data, Cur(s), oc), oc)
        ELSE NoV(NoV(Cur(pos)))

\* check_headertype of reader_rar5.rs
rar5_check_headertype(data, pos, oc) ==
    LET c == Rar5Prologue(data, pos, oc)
    IN  IF c.st = "panic" THEN [st |-> "panic", htype |-> 0]
        ELSE IF c.st = "fail" THEN [st |-> "ok", htype |-> USIZE_MAX]
        ELSE [st |-> "ok", htype |-> c.v[2]]

\* what a check_header_* function hands back
Ret(st, ret, fs) == [st |-> st, ret |-> ret, files |-> fs]

\* if htype != want || data.len() < pos + hsize as usize { return usize::MAX }
\* 1 = rejected, 0 = accepted, -1 = panic
Rar5HeaderRejected(data, pos, c, want, oc) ==
    IF c.v[2] # want THEN 1
    ELSE LET e == Add(pos, c.v[1], oc)
         IN  IF e = -1 THEN -1 ELSE IF Len(data) < e THEN 1 ELSE 0

\* headerlen = 4 + vintlen as usize + hsize as usize (computed inside the
\* prologue's branch)
Rar5HeaderLen(data, pos, c, oc) ==
    IF Len(data) >= pos + 6 THEN Add(4 + c.l[1], c.v[1], oc) ELSE 0

\* the fields of check_header_mainarchive after the prologue:
\* v = <<hsize, htype, hflag, extra_size, aflag, volnum>>
MainArchiveFields == <<Vint, Vint, Vint, VintIf(5, 2)>>

\* check_header_mainarchive
check_header_mainarchive(data, pos, oc) ==
    LET c0 == Rar5Prologue(data, pos, oc)
    IN  IF c0.st = "panic" THEN Ret("panic", 0, <<>>)
        ELSE IF c0.st = "fail" THEN Ret("ok", USIZE_MAX, <<>>)
        ELSE
        LET headerlen == Rar5HeaderLen(data, pos, c0, oc)
            rej == Rar5HeaderRejected(data, pos, c0, 1, oc)
            c4 == ReadFields(data, c0, MainArchiveFields, 1, oc)
        IN  IF headerlen = -1 \/ rej = -1 THEN Ret("panic", 0, <<>>)
            ELSE IF rej = 1 THEN Ret("ok", USIZE_MAX, <<>>)
            ELSE IF c4.st = "panic" THEN Ret("panic", 0, <<>>)
            ELSE IF c4.st = "fail" THEN Ret("ok", USIZE_MAX, <<>>)
            ELSE IF c4.v[6] = USIZE_MAX /\ oc THEN Ret("panic", 0, <<>>)   \* volnum + 1
            ELSE Ret("ok", headerlen, <<>>)

\* variant: directories pushed as well
Rar5Emits_Dirs(is_data, is_dir) == is_data

\* variant: the directory test inverted
Rar5Emits_DirsOnly(is_data, is_dir) == is_data /\ is_dir

\* if is_data && !is_dir { files.push(..) }
Rar5Emits(is_data, is_dir) == is_data /\ ~is_dir

\* The body shared by check_header_file and check_header_service, from the
\* header flags to the data area.  v = <<hsize, htype, hflag, extra_size,
\* data_size, fflag, file_size, file_attr, file_comp, file_hostos, file_namelen>>
FileFields ==
    <<Vint,                 \* hflag
      VintIf(3, 1),         \* extra_size
      VintIf(3, 2),         \* data_size
      Vint,                 \* fflag
      Vint,                 \* file_size
      Vint,                 \* file_attr
      Bytes4If(6, 2),       \* mtime
      Bytes4If(6, 4),       \* crc32
      Vint,                 \* file_comp
      Vint,                 \* file_hostos
      Vint>>                \* file_namelen

Rar5Fields(data, c0, oc) == ReadFields(data, c0, FileFields, 1, oc)

\* &data[offset..(offset + file_namelen as usize)], from_utf8(..).unwrap(),
\* then the extra area and the data area are skipped
Rar5Tail(data, pos, c, fs, emit, oc) ==
    IF c.st = "panic" THEN Ret("panic", 0, fs)
    ELSE IF c.st = "fail" THEN Ret("ok", USIZE_MAX, fs)
    ELSE
    LET is_extra == BitSet(c.v[3], 1)
        is_data  == BitSet(c.v[3], 2)
        is_dir   == BitSet(c.v[6], 1)
        name_end == Add(c.off, c.v[11], oc)
    IN  IF name_end = -1 \/ name_end > Len(data) \/ name_end < c.off
        THEN Ret("panic", 0, fs)
        ELSE
        LET file_name == Slice(data, c.off, name_end)
            a == [c EXCEPT !.off = name_end]
            b == IF is_extra THEN Skip(a, c.v[4], oc) ELSE a
            d == IF is_data THEN Skip(b, c.v[5], oc) ELSE b
            ret == Sub(d.off, pos, oc)
        IN  IF ~IsUtf8(file_name) \/ d.st = "panic" \/ ret = -1
            THEN Ret("panic", 0, fs)
            ELSE Ret("ok", ret,
                     IF emit /\ Rar5Emits(is_data, is_dir)
                     THEN Append(fs, MemberFile(file_name, file_name, b.off, c.v[5], c.v[7], "Unset"))
                     ELSE fs)

\* check_header_file
check_header_file(data, pos, fs, oc) ==
    LET c0 == Rar5Prologue(data, pos, oc)
    IN  IF c0.st = "panic" THEN Ret("panic", 0, fs)
        ELSE IF c0.st = "fail" THEN Ret("ok", USIZE_MAX, fs)
        ELSE
        LET headerlen == Rar5HeaderLen(data, pos, c0, oc)
            rej == Rar5HeaderRejected(data, pos, c0, 2, oc)
        IN  IF headerlen = -1 \/ rej = -1 THEN Ret("panic", 0, fs)
            ELSE IF rej = 1 THEN Ret("ok", USIZE_MAX, fs)
            ELSE Rar5Tail(data, pos, Rar5Fields(data, c0, oc), fs, TRUE, oc)

\* check_header_service
check_header_service(data, pos, oc) ==
    LET c0 == Rar5Prologue(data, pos, oc)
    IN  IF c0.st = "panic" THEN Ret("panic", 0, <<>>)
        ELSE IF c0.st = "fail" THEN Ret("ok", USIZE_MAX, <<>>)
        ELSE
        LET headerlen == Rar5HeaderLen(data, pos, c0, oc)
            rej == Rar5HeaderRejected(data, pos, c0, 3, oc)
        IN  IF headerlen = -1 \/ rej = -1 THEN Ret("panic", 0, <<>>)
            ELSE IF rej = 1 THEN Ret("ok", USIZE_MAX, <<>>)
            ELSE Rar5Tail(data, pos, Rar5Fields(data, c0, oc), <<>>, FALSE, oc)

(***************************************************************************)
(* RAR4 and RAR5 input buffers, laid out as the formats define them        *)
(***************************************************************************)
MaxRar4Files == 2

MaxRar5Blocks == 2

\* the two header CRC bytes (RAR4) / four (RAR5); never interpreted
Crc2 == <<17, 34>>

Crc4 == <<17, 34, 51, 68>>

\* MAIN_HEAD: 7-byte header, HighPosAv(2), PosAv(4); HEAD_SIZE = 13
R4Main == Crc2 \o <<115>> \o LE16(0) \o LE16(13) \o Zeros(6)

\* ENDARC_HEAD: HEAD_SIZE = 7
R4End == Crc2 \o <<123>> \o LE16(16384) \o LE16(7)

\* A FILE_HEAD block.  flags is HEAD_FLAGS; pad is the length of what the
\* header holds after the name and salt (ext-time and the like); pack is the
\* declared PACK_SIZE.
R4F(flags, name, attr, pack, unp, hpack, hunp, pad, data) ==
    [flags |-> flags, name |-> name, attr |-> attr, pack |-> pack, unp |-> unp,
     hpack |-> hpack, hunp |-> hunp, pad |-> pad, data |-> data]

R4Large(f) == BitSet(f.flags, 256)

R4Salted(f) == BitSet(f.flags, 1024)

R4HeadSize(f) ==
    32 + (IF R4Large(f) THEN 8 ELSE 0) + Len(f.name) + (IF R4Salted(f) THEN 8 ELSE 0) + f.pad

R4FileBytes(f) ==
    Crc2 \o <<116>> \o LE16(f.flags) \o LE16(R4HeadSize(f))
    \o LE32(f.pack) \o LE32(f.unp) \o <<2>> \o Zeros(4) \o Zeros(4) \o <<29>> \o <<48>>
    \o LE16(Len(f.name)) \o LE32(f.attr)
    \o (IF R4Large(f) THEN LE32(f.hpack) \o LE32(f.hunp) ELSE <<>>)
    \o f.name
    \o (IF R4Salted(f) THEN Zeros(8) ELSE <<>>)
    \o Zeros(f.pad)
    \o f.data

R4Files ==
    { R4F(32768, <<97>>, 32, 2, 2, 0, 0, 0, <<1, 2>>),          \* "a", stored
      R4F(32768, <<97, 0>>, 32, 2, 5, 0, 0, 9, <<1, 2>>),       \* NUL-ended name, 9 more header bytes
      R4F(32768, <<98>>, 32, 1, 1, 0, 0, 9, <<3>>),             \* "b", 9 more header bytes
      R4F(32992, <<100>>, 16, 0, 0, 0, 0, 0, <<>>),             \* directory "d" (flags 0x80E0)
      R4F(33024, <<99, 0>>, 32, 1, 1, 1, 1, 9, <<4>>),          \* LHD_LARGE, high words 1
      R4F(33024, <<99, 0>>, 32, 1, 1, 0, 0, 9, <<4>>),          \* LHD_LARGE, high words 0
      R4F(33025, <<103, 0>>, 32, 1, 1, 1, 1, 9, <<6>>),         \* LHD_LARGE | split-before, high words 1
      R4F(32768, <<101, 0>>, 32, 9, 9, 0, 0, 9, <<5>>),         \* data range past the end
      R4F(32768, <<102, 0>>, 1, 1, 1, 0, 0, 9, <<8>>),          \* read-only file, archive bit clear
      R4F(32992, <<104, 0>>, 48, 0, 0, 0, 0, 9, <<>>) }         \* directory with the archive bit

\* what follows the last file: the end of the archive, or the end of the
\* archive and bytes that look like one more file behind it
R4Tails == {R4End, R4End \o R4FileBytes(R4F(32768, <<122, 0>>, 32, 1, 1, 0, 0, 9, <<9>>))}

Rar4Inputs ==
    { [kind |-> "rar4", entries |-> fs, tail |-> R4End, cut |-> 0] :
        fs \in SeqsUpTo(R4Files, MaxRar4Files) }
    \cup
    { [kind |-> "rar4", entries |-> <<f>>, tail |-> t, cut |-> 0] : f \in R4Files, t \in R4Tails }

Rar4Bytes(in) ==
    RAR4_SIGNATURE \o R4Main
    \o Concat([i \in 1 .. Len(in.entries) |-> R4FileBytes(in.entries[i])]) \o in.tail

\* the base-128 encoding of v: 7 bits a byte, low group first, the high bit
\* set on every byte but the last
RECURSIVE EncVint(_)
EncVint(v) == IF v < 128 THEN <<v>> ELSE <<128 + (v % 128)>> \o EncVint(v \div 128)

\* a RAR5 block: CRC32, header size, then the header from its type on
R5Block(body, data) == Crc4 \o EncVint(Len(body)) \o body \o data

\* main archive header: type 1, header flags 0, archive flags 0
R5Main == R5Block(EncVint(1) \o EncVint(0) \o EncVint(0), <<>>)

\* end of archive header: type 5, header flags 0, end-of-archive flags 0
R5End == R5Block(EncVint(5) \o EncVint(0) \o EncVint(0), <<>>)

\* A file (type 2) or service (type 3) block.  dsize is the declared data
\* size and nlen the declared name length.
R5F(type, has_data, fflag, unp, name, nlen, extra, dsize, data) ==
    [type |-> type, has_data |-> has_data, fflag |-> fflag, unp |-> unp, name |-> name,
     nlen |-> nlen, extra |-> extra, dsize |-> dsize, data |-> data]

R5HeaderFlags(f) == (IF f.extra # <<>> THEN 1 ELSE 0) + (IF f.has_data THEN 2 ELSE 0)

R5Body(f) ==
    EncVint(f.type) \o EncVint(R5HeaderFlags(f))
    \o (IF f.extra # <<>> THEN EncVint(Len(f.extra)) ELSE <<>>)
    \o (IF f.has_data THEN EncVint(f.dsize) ELSE <<>>)
    \o EncVint(f.fflag) \o EncVint(f.unp) \o EncVint(32)
    \o (IF BitSet(f.fflag, 2) THEN Zeros(4) ELSE <<>>)
    \o (IF BitSet(f.fflag, 4) THEN Zeros(4) ELSE <<>>)
    \o EncVint(128) \o EncVint(0) \o EncVint(f.nlen) \o f.name \o f.extra

R5BlockBytes(f) == R5Block(R5Body(f), f.data)

R5Good ==
    { R5F(2, TRUE, 0, 2, <<97>>, 1, <<>>, 2, <<1, 2>>),               \* "a"
      R5F(2, TRUE, 6, 300, <<100, 47, 98>>, 3, <<3, 1, 0>>, 1, <<7>>), \* "d/b", mtime, crc, extra area
      R5F(2, FALSE, 1, 0, <<100>>, 1, <<>>, 0, <<>>),                  \* directory "d"
      R5F(2, TRUE, 1, 0, <<101>>, 1, <<>>, 0, <<>>),                   \* directory with an empty data area
      R5F(2, FALSE, 0, 0, <<102>>, 1, <<>>, 0, <<>>),                  \* file without a data area
      R5F(3, TRUE, 0, 1, <<81, 79>>, 2, <<>>, 1, <<9>>) }              \* service block "QO"

\* a directory whose declared data size, added to the length of its header,
\* comes to one machine word
R5Wrap ==
    LET f == R5F(2, TRUE, 1, 0, <<119>>, 1, <<>>, Word - 1, <<>>)
    IN  [f EXCEPT !.dsize = Word - Len(R5BlockBytes(f))]

R5Bad ==
    { R5Wrap,
      R5F(2, TRUE, 0, 9, <<97>>, 1, <<>>, 9, <<1>>),                   \* data range past the end
      R5F(2, TRUE, 0, 1, <<255>>, 1, <<>>, 1, <<1>>),                  \* name is not UTF-8
      R5F(2, TRUE, 0, 1, <<97>>, 60, <<>>, 1, <<1>>) }                 \* name range past the end

\* a file whose header holds one byte more than its fields account for (a
\* byte behind the name): the declared header size covers it
R5Odd == R5F(2, TRUE, 0, 1, <<97, 0>>, 1, <<>>, 1, <<1>>)

Rar5Inputs ==
    { [kind |-> "rar5", entries |-> bs, tail |-> t, cut |-> 0] :
        bs \in SeqsUpTo(R5Good \cup R5Bad, MaxRar5Blocks) \cup {<<R5Odd>>}, t \in {R5End} }

Rar5Bytes(in) ==
    RAR5_SIGNATURE \o R5Main
    \o Concat([i \in 1 .. Len(in.entries) |-> R5BlockBytes(in.entries[i])]) \o in.tail

Rar5WellFormed(in) ==
    /\ in.kind = "rar5"
    /\ in.cut = 0
    /\ \A i \in 1 .. Len(in.entries) : in.entries[i] \in R5Good

\* the offset at which block i's header (its CRC) starts
RECURSIVE Rar5BlockStart(_, _)
Rar5BlockStart(bs, i) ==
    IF i = 1 THEN Len(RAR5_SIGNATURE) + Len(R5Main)
    ELSE Rar5BlockStart(bs, i - 1) + Len(R5BlockBytes(bs[i - 1]))

(***************************************************************************)
(* Rar5Reader::read_archive                                                *)
(***************************************************************************)
\* read_archive up to the loop: signature, header type, main archive header
Rar5Start ==
    /\ LET s  == rar5_check_rarsign(buf)
           o  == s.pos + 8
           t  == rar5_check_headertype(buf, o, overflow_checks)
           m  == check_header_mainarchive(buf, o, overflow_checks)
           o2 == Add(o, m.ret, overflow_checks)
       IN  IF s.panic
           THEN /\ pc' = "returned" /\ offset' = 0 /\ result' = "Panic"
           ELSE IF ~s.found
           THEN /\ pc' = "returned" /\ offset' = 0 /\ result' = "Ok"
           ELSE IF t.st = "panic"
           THEN /\ pc' = "returned" /\ offset' = o /\ result' = "Panic"
           ELSE IF t.htype # 1
           THEN /\ pc' = "returned" /\ offset' = o /\ result' = "Ok"
           ELSE IF m.st = "panic" \/ o2 = -1
           THEN /\ pc' = "returned" /\ offset' = o /\ result' = "Panic"
           ELSE /\ pc' = "rar5" /\ offset' = o2 /\ result' = "none"
    /\ files' = <<>>
    /\ trace' = <<>>

\* a call of Rar5Reader::read_archive with an empty files vector, by the
\* caller of the library or by the entry point that has selected this parser
Rar5ReadArchive ==
    /\ IF pc = "idle" THEN input.kind \in {"rar5", "raw"} ELSE pc = "enter" /\ call.reader = "Rar5"
    /\ Rar5Start
    /\ call' = IF pc = "idle" THEN [fn |-> "Rar5Reader::read_archive"] ELSE call
    /\ UNCHANGED <<gui, ipc, buf, input, overflow_checks>>

\* one iteration of the loop of Rar5Reader::read_archive
Rar5Block ==
    /\ pc = "rar5"
    /\ LET t == rar5_check_headertype(buf, offset, overflow_checks)
           r == IF t.htype = 2
                THEN check_header_file(buf, offset, files, overflow_checks)
                ELSE LET v == check_header_service(buf, offset, overflow_checks)
                     IN  [v EXCEPT !.files = files]
           o2 == Add(offset, r.ret, overflow_checks)
       IN  IF t.st = "panic"
           THEN /\ pc' = "returned" /\ result' = "Panic"
                /\ UNCHANGED <<offset, files, trace>>
           ELSE IF t.htype \notin {2, 3}
           THEN /\ pc' = "returned" /\ result' = "Ok"
                /\ trace' = Logged(trace, [type |-> t.htype, pos |-> offset, next |-> offset])
                /\ UNCHANGED <<offset, files>>
           ELSE IF r.st = "panic" \/ o2 = -1
           THEN /\ pc' = "returned" /\ result' = "Panic"
                /\ UNCHANGED <<offset, files, trace>>
           ELSE /\ offset' = o2
                /\ files' = r.files
                /\ trace' = Logged(trace, [type |-> t.htype, pos |-> offset, next |-> o2])
                /\ UNCHANGED <<pc, result>>
    /\ UNCHANGED <<gui, ipc, buf, input, overflow_checks, call>>

(***************************************************************************)
(* sort_filename (sort_filename.rs).  A filepath is the sequence of its    *)
(* character codes; the model's paths are ASCII.                           *)
(***************************************************************************)
\* {x:0>30}
PadWidth == 30

\* \d
IsDigit(ch) == ch >= 48 /\ ch <= 57

\* the length of the run of digits (of non-digits) a string starts with
LeadDigits(s) ==
    LET stops == {i \in 1 .. Len(s) : ~IsDigit(s[i])}
    IN  IF stops = {} THEN Len(s) ELSE SetMin(stops) - 1

LeadOthers(s) ==
    LET stops == {i \in 1 .. Len(s) : IsDigit(s[i])}
    IN  IF stops = {} THEN Len(s) ELSE SetMin(stops) - 1

\* PaddProc::replace_append: the match right-aligned in PadWidth columns,
\* filled with '0'; a longer match is left as it is
PaddProc(run) ==
    IF Len(run) >= PadWidth THEN run
    ELSE [i \in 1 .. PadWidth - Len(run) |-> 48] \o run

\* re.replace_all(&filepath, PaddProc) with re = (\d+)
RECURSIVE replace_all(_)
replace_all(s) ==
    IF s = <<>> THEN <<>>
    ELSE IF IsDigit(s[1])
    THEN PaddProc(SubSeq(s, 1, LeadDigits(s)))
         \o replace_all(SubSeq(s, LeadDigits(s) + 1, Len(s)))
    ELSE SubSeq(s, 1, LeadOthers(s))
         \o replace_all(SubSeq(s, LeadOthers(s) + 1, Len(s)))

\* str::to_lowercase on ASCII
to_lowercase(s) == [i \in 1 .. Len(s) |-> IF s[i] >= 65 /\ s[i] <= 90 THEN s[i] + 32 ELSE s[i]]

\* the key the closure compares
SortKey(path) == to_lowercase(replace_all(path))

\* Ord::cmp on strings: lexical by character, a proper prefix first
StrCmp(a, b) ==
    LET diffs == {i \in 1 .. Min(Len(a), Len(b)) : a[i] # b[i]}
    IN  IF diffs = {}
        THEN (IF Len(a) < Len(b) THEN "Less" ELSE IF Len(a) > Len(b) THEN "Greater" ELSE "Equal")
        ELSE IF a[SetMin(diffs)] < b[SetMin(diffs)] THEN "Less" ELSE "Greater"

\* the closure given to sort_by
SortCompare(a, b) == StrCmp(SortKey(a.filepath), SortKey(b.filepath))

\* a record placed in front of the records it compares Equal to
InsertStable_Before(acc, x) ==
    LET later == {i \in 1 .. Len(acc) : SortCompare(acc[i], x) # "Less"}
        k     == IF later = {} THEN Len(acc) + 1 ELSE SetMin(later)
    IN  SubSeq(acc, 1, k - 1) \o <<x>> \o SubSeq(acc, k, Len(acc))

\* a record placed into an ordered vector behind every record that does
\* not compare Greater than it (sort_by is a stable sort)
InsertStable(acc, x) ==
    LET later == {i \in 1 .. Len(acc) : SortCompare(acc[i], x) = "Greater"}
        k     == IF later = {} THEN Len(acc) + 1 ELSE SetMin(later)
    IN  SubSeq(acc, 1, k - 1) \o <<x>> \o SubSeq(acc, k, Len(acc))

RECURSIVE SortFrom(_, _, _)
SortFrom(fs, i, acc) ==
    IF i > Len(fs) THEN acc ELSE SortFrom(fs, i + 1, InsertStable(acc, fs[i]))

\* files.sort_by(..)
sort_filename(fs) == SortFrom(fs, 1, <<>>)

\* lists of filepaths: digit runs of one, two, thirty and thirty-one digits,
\* upper and lower case, two runs in one path
MaxNames == 3

Digits(d, n) == [i \in 1 .. n |-> d]

NamePaths ==
    { <<112, 50>>,                       \* p2
      <<80, 50>>,                        \* P2
      <<112, 49, 48>>,                   \* p10
      <<112, 50, 98, 49, 48>>,           \* p2b10
      Digits(57, PadWidth),              \* 99..9, PadWidth digits
      <<49>> \o Digits(48, PadWidth) }   \* 100..0, PadWidth + 1 digits

NameInputs ==
    { [kind |-> "names", entries |-> ps, cut |-> 0] : ps \in SeqsUpTo(NamePaths, MaxNames) }

\* the records handed to sort_filename; the offset tells records of equal
\* path apart
NameRecords(ps) == [i \in 1 .. Len(ps) |-> MemberFile(ps[i], ps[i], i, 0, 0, "Unset")]

SortFilename ==
    /\ pc = "idle"
    /\ input.kind = "names"
    /\ files' = sort_filename(NameRecords(input.entries))
    /\ pc' = "sorted"
    /\ call' = [fn |-> "sort_filename"]
    /\ UNCHANGED <<gui, ipc, buf, input, overflow_checks, offset, result, trace>>

(***************************************************************************)
(* Data access: uncomp_deflate, ZipReader::read_data,                      *)
(* ArchiveManager::read_uncompressed_data, Rar4Reader / Rar5Reader         *)
(* ::read_data                                                             *)
(***************************************************************************)
\* what a data-access call hands back; sliced = a slice of the buffer was
\* taken or attempted
Access(kind, data, sliced) == [kind |-> kind, data |-> data, sliced |-> sliced]

\* if end > buf.len() { return Err(OutOfBounds) }
PastEnd(end, len) == end > len

\* let start = offset as usize; let end = start + size as usize;
\* if end > buf.len() { return Err(OutOfBounds { .. }) }  &buf[start..end]
CheckedRead(data, off, size, oc) ==
    LET end == Add(off, size, oc)
    IN  IF end = -1 THEN Access("Panic", <<>>, FALSE)
        ELSE IF PastEnd(end, Len(data)) THEN Access("OutOfBounds", <<>>, FALSE)
        ELSE IF off > end THEN Access("Panic", <<>>, TRUE)
        ELSE Access("Ok", Slice(data, off, end), TRUE)

\* buf[offset as usize..offset as usize + size as usize].to_owned()
UncheckedRead(data, off, size, oc) ==
    LET end == Add(off, size, oc)
    IN  IF end = -1 THEN Access("Panic", <<>>, FALSE)
        ELSE IF off > end \/ end > Len(data) THEN Access("Panic", <<>>, TRUE)
        ELSE Access("Ok", Slice(data, off, end), TRUE)

zip_read_data(data, off, size, oc) == CheckedRead(data, off, size, oc)

read_uncompressed_data(data, off, size, oc) == CheckedRead(data, off, size, oc)

rar4_read_data(data, off, size, oc) == UncheckedRead(data, off, size, oc)

rar5_read_data(data, off, size, oc) == UncheckedRead(data, off, size, oc)

\* uncomp_deflate: the range check, then the decoder either inflates the
\* slice or rejects the stream (inflated: the decoder's verdict)
uncomp_deflate(data, off, size, oc, inflated) ==
    LET r == CheckedRead(data, off, size, oc)
    IN  IF r.kind = "Ok" /\ ~inflated THEN Access("DecompressionError", <<>>, TRUE) ELSE r

AccessFns ==
    {"uncomp_deflate", "ZipReader::read_data", "ArchiveManager::read_uncompressed_data",
     "Rar4Reader::read_data", "Rar5Reader::read_data"}

CallAccess(fn, data, off, size, oc, inflated) ==
    CASE fn = "uncomp_deflate" -> uncomp_deflate(data, off, size, oc, inflated)
      [] fn = "ZipReader::read_data" -> zip_read_data(data, off, size, oc)
      [] fn = "ArchiveManager::read_uncompressed_data" -> read_uncompressed_data(data, off, size, oc)
      [] fn = "Rar4Reader::read_data" -> rar4_read_data(data, off, size, oc)
      [] fn = "Rar5Reader::read_data" -> rar5_read_data(data, off, size, oc)

\* the (offset, size) requests made of a buffer of length n
ReqOffsets(n) == {0, 1, n, USIZE_MAX}

ReqSizes(n) == {0, 1, n, n + 1, USIZE_MAX}

\* a data-access call with an arbitrary request on a one-piece buffer
DataAccess ==
    /\ pc = "idle"
    /\ call.fn = "none"
    /\ input.kind = "raw"
    /\ Len(input.entries) <= 1
    /\ \E fn \in AccessFns, off \in ReqOffsets(Len(buf)), size \in ReqSizes(Len(buf)),
          inflated \in BOOLEAN :
          /\ inflated \/ fn = "uncomp_deflate"
          /\ call' = [fn |-> fn, offset |-> off, size |-> size,
                      ret |-> CallAccess(fn, buf, off, size, overflow_checks, inflated)]
    /\ UNCHANGED <<gui, ipc, buf, input, overflow_checks, pc, offset, files, result, trace>>

\* ZipReader::read_data on the range of a member the parse returned
ReadMember ==
    /\ pc = "returned"
    /\ result = "Ok"
    /\ input.kind = "zip"
    /\ call.fn # "ArchiveManager::process_archive"
    /\ \E i \in 1 .. Len(files) :
          call' = [fn |-> "ZipReader::read_data", member |-> i,
                   offset |-> files[i].offset, size |-> files[i].size,
                   ret |-> zip_read_data(buf, files[i].offset, files[i].size, overflow_checks)]
    /\ UNCHANGED <<gui, ipc, buf, input, overflow_checks, pc, offset, files, result, trace>>

\* check_file_type on the buffer
Detect ==
    /\ pc = "idle"
    /\ call.fn = "none"
    /\ call' = [fn |-> "check_file_type", ret |-> check_file_type(buf)]
    /\ UNCHANGED <<gui, ipc, buf, input, overflow_checks, pc, offset, files, result, trace>>

\* read_vint at a position of the buffer
ReadVint ==
    /\ pc = "idle"
    /\ call.fn = "none"
    /\ input.kind \in {"vint", "raw"}
    /\ \E pos \in 0 .. Len(buf) + 1 :
          /\ input.kind = "vint" => pos = Len(input.pre)
          /\ call' = [fn |-> "read_vint", pos |-> pos,
                      ret |-> read_vint(buf, pos, overflow_checks)]
    /\ UNCHANGED <<gui, ipc, buf, input, overflow_checks, pc, offset, files, result, trace>>

(***************************************************************************)
(* RarHandler (rar_handler.rs) and ArchiveManager::process_archive         *)
(* (model/archive_manager.rs)                                              *)
(***************************************************************************)
\* buf.len() >= n && buf.starts_with(sig)
starts_with(data, sig) == Len(data) >= Len(sig) /\ SubSeq(data, 1, Len(sig)) = sig

\* for window in buf.windows(n) { if window == sig { return .. } }
HasWindow(data, sig) ==
    \E i \in 1 .. Len(data) - Len(sig) + 1 : SubSeq(data, i, i + Len(sig) - 1) = sig

detect_rar_version(data) ==
    IF starts_with(data, RAR5_SIGNATURE) THEN "Rar5"
    ELSE IF starts_with(data, RAR4_SIGNATURE) THEN "Rar4"
    ELSE IF HasWindow(data, RAR5_SIGNATURE) THEN "Rar5"
    ELSE IF HasWindow(data, RAR4_SIGNATURE) THEN "Rar4"
    ELSE "Unknown"

\* RarHandler::detect_rar_version on the buffer
DetectRarVersion ==
    /\ pc = "idle"
    /\ call.fn = "none"
    /\ input.kind \in {"rar4", "rar5", "raw"}
    /\ Len(input.entries) <= 1
    /\ call' = [fn |-> "RarHandler::detect_rar_version", ret |-> detect_rar_version(buf)]
    /\ UNCHANGED <<gui, ipc, buf, input, overflow_checks, pc, offset, files, result, trace>>

\* RarHandler::read_archive up to the call of the parser it selects
RarHandlerReadArchive ==
    /\ pc = "idle"
    /\ call.fn = "none"
    /\ input.kind \in {"rar4", "rar5", "raw"}
    /\ Len(input.entries) <= 1
    /\ LET version == detect_rar_version(buf)
       IN  IF version \in {"Rar4", "Rar5"}
           THEN /\ pc' = "enter"
                /\ call' = [fn |-> "RarHandler::read_archive", reader |-> version]
           ELSE /\ pc' = "finished"
                /\ call' = [fn |-> "RarHandler::read_archive", reader |-> version,
                            ret |-> [kind |-> "UnsupportedFormat"]]
    /\ UNCHANGED <<gui, ipc, buf, input, overflow_checks, offset, files, result, trace>>

\* the parser has returned into RarHandler::read_archive: `?`, Ok(version)
RarHandlerReturn ==
    /\ pc = "returned"
    /\ call.fn = "RarHandler::read_archive"
    /\ pc' = "finished"
    /\ call' = [fn |-> call.fn, reader |-> call.reader,
                ret |-> IF result = "Ok"
                        THEN [kind |-> "Ok", version |-> call.reader]
                        ELSE [kind |-> result]]
    /\ UNCHANGED <<gui, ipc, buf, input, overflow_checks, offset, files, result, trace>>

\* ArchiveManager::process_archive up to the call of the parser it selects
ProcessArchive ==
    /\ pc = "idle"
    /\ call.fn = "none"
    /\ input.kind \in {"zip", "rar4", "rar5", "raw"}
    /\ input.kind = "zip" \/ Len(input.entries) <= 1
    /\ LET file_type == check_file_type(buf)
       IN  IF file_type \in {"Rar5", "Rar4", "Zip"}
           THEN /\ pc' = "enter"
                /\ call' = [fn |-> "ArchiveManager::process_archive", reader |-> file_type]
           ELSE /\ pc' = "finished"
                /\ call' = [fn |-> "ArchiveManager::process_archive", reader |-> file_type,
                            ret |-> [kind |-> IF file_type = "Panic" THEN "Panic"
                                              ELSE "UnsupportedFormat",
                                     files |-> <<>>]]
    /\ UNCHANGED <<gui, ipc, buf, input, overflow_checks, offset, files, result, trace>>

\* the parser has returned into process_archive: `?`, sort_filename,
\* Ok(files); the local vector is moved out or dropped
ProcessArchiveReturn ==
    /\ pc = "returned"
    /\ call.fn = "ArchiveManager::process_archive"
    /\ pc' = "finished"
    /\ files' = <<>>
    /\ call' = [fn |-> call.fn, reader |-> call.reader,
                ret |-> IF result = "Ok"
                        THEN [kind |-> "Ok", files |-> sort_filename(files)]
                        ELSE [kind |-> result, files |-> <<>>]]
    /\ UNCHANGED <<gui, ipc, buf, input, overflow_checks, offset, result, trace>>

(***************************************************************************)
(* Raw buffers (signatures, their prefixes, stubs, garbage) and vint       *)
(* buffers                                                                 *)
(***************************************************************************)
MaxPieces == 2

RawPieces ==
    { <<82>>, <<80>>, <<7>>, Zeros(7), <<128>>, <<255, 255, 255, 255, 255>>,
      ZIP_SIGNATURE, RAR4_SIGNATURE, RAR5_SIGNATURE,
      SubSeq(RAR5_SIGNATURE, 1, 6), SubSeq(ZIP_SIGNATURE, 1, 3) }

RawInputs ==
    { [kind |-> "raw", entries |-> ps, tail |-> <<>>, cut |-> 0] :
        ps \in {<<>>} \cup SeqsUpTo(RawPieces, MaxPieces) }

RawBytes(in) == Concat(in.entries)

\* the values whose encodings are decoded: the ends of each encoded length
VintValues ==
    {0, 1, 127, 128, 300, 16383, 16384, 2097151, 2097152, 2 ^ (WordBits - 1), Word - 1}

VintInputs ==
    { [kind |-> "vint", v |-> v, pre |-> p, tail |-> t, cut |-> 0] :
        v \in VintValues, p \in {<<>>, <<255>>}, t \in {<<>>, <<0>>, <<255, 255>>} }

VintBytes(in) == in.pre \o EncVint(in.v) \o in.tail

(***************************************************************************)
(* The files a user can drop on the window.  A path is its stem and its    *)
(* extension (character codes).  A file is its bytes and what the archive  *)
(* parser makes of them; the members of the model's archives are one byte  *)
(* each, and the byte tells the pictures apart.                            *)
(***************************************************************************)
MaxPages == 3

MaxTasks == 2

Path(stem, ext) == [stem |-> stem, ext |-> ext]

\* PathBuf::default()
NoPath == Path(<<>>, <<>>)

ArchiveA == Path(<<97>>, <<122, 105, 112>>)    \* a.zip
ArchiveB == Path(<<98>>, <<67, 66, 90>>)       \* b.CBZ
ArchiveC == Path(<<99>>, <<114, 97, 114>>)     \* c.rar, a damaged archive
ImageI == Path(<<105>>, <<112, 110, 103>>)      \* i.png
TextX == Path(<<120>>, <<116, 120, 116>>)       \* x.txt

Paths == {ArchiveA, ArchiveB, ArchiveC, ImageI, TextX}

\* the files dropped on the viewer's window: a sound archive, a damaged one
\* and a file that is neither an archive nor a picture
Dropped == {ArchiveA, ArchiveC, TextX}

\* the member "n.png" stored in one byte at off
Png(n, off, ctype) ==
    MemberFile(<<48 + n, 46, 112, 110, 103>>, <<48 + n, 46, 112, 110, 103>>, off, 1, 1, ctype)

\* a.zip holds MaxPages members named as pictures, the second one deflated;
\* the bytes of the last one are no picture
FileBytes(path) ==
    CASE path = ArchiveA -> <<80>> \o [n \in 1 .. MaxPages |-> IF n = 2 THEN 128 + 13 ELSE IF n = MaxPages THEN 0 ELSE 10 + n]
      [] path = ArchiveB -> <<80, 21, 0, 128 + 23>>
      [] path = ArchiveC -> <<82>>
      [] path = ImageI -> <<31>>
      [] path = TextX -> <<104, 105>>

\* what the archive parser returns on the bytes of the file.  b.CBZ holds a
\* picture, a member that is no picture, a Deflate64 member, a text file
\* and a member whose range lies past the end of the file.
Parsed(path) ==
    CASE path = ArchiveA ->
            [kind |-> "Ok",
             files |-> [n \in 1 .. MaxPages |->
                           Png(n, n, IF n = 2 THEN "Deflate" ELSE "Uncompress")]]
      [] path = ArchiveB ->
            [kind |-> "Ok",
             files |-> << Png(1, 1, "Uncompress"), Png(2, 2, "Uncompress"),
                          Png(3, 3, "Deflate64"),
                          MemberFile(<<52, 46, 116, 120, 116>>, <<52, 46, 116, 120, 116>>,
                                     1, 1, 1, "Uncompress"),
                          Png(5, 9, "Uncompress") >>]
      [] OTHER -> [kind |-> "CorruptedArchive", files |-> <<>>]

\* image::load_from_memory / ImageReader::decode accepts the bytes
IsImage(data) == data # <<>> /\ data[1] # 0

\* flate2's DeflateDecoder reads the bytes to the end of a stream
Inflates(data) == data # <<>> /\ data[1] >= 128

\* "jpg" | "jpeg" | "png" | "gif" | "bmp" | "webp" | "tiff" | "tif"
ImageExtensions ==
    { <<106, 112, 103>>, <<106, 112, 101, 103>>, <<112, 110, 103>>, <<103, 105, 102>>,
      <<98, 109, 112>>, <<119, 101, 98, 112>>, <<116, 105, 102, 102>>, <<116, 105, 102>> }

\* "zip" | "rar" | "cbz" | "cbr"
ArchiveExtensions ==
    { <<122, 105, 112>>, <<114, 97, 114>>, <<99, 98, 122>>, <<99, 98, 114>> }

\* Task::perform: the futures in flight, in the order they were started;
\* they complete in any order
InFlight(ts) == {ts[i] : i \in 1 .. Len(ts)}

Without(ts, t) ==
    LET i == SetMin({j \in 1 .. Len(ts) : ts[j] = t})
    IN  SubSeq(ts, 1, i - 1) \o SubSeq(ts, i + 1, Len(ts))

\* the part of s behind its last separator, all of s if it holds none
AfterLast(s, seps) ==
    LET at == {i \in 1 .. Len(s) : s[i] \in seps}
    IN  IF at = {} THEN s
        ELSE LET last == CHOOSE i \in at : \A j \in at : j <= i
             IN  SubSeq(s, last + 1, Len(s))

(***************************************************************************)
(* AppState (model/app_state.rs) and PageManager (model/page_manager.rs).  *)
(* The operators take and return the state record.  ImageViewer (main.rs)  *)
(* keeps the same three navigation fields and carries its own copies of    *)
(* next_page, previous_page, next_file and previous_file, line for line,   *)
(* so the operators serve both front ends.                                 *)
(***************************************************************************)
AppStateDefault ==
    [current_file_path |-> NoPath, archive_files |-> <<>>, current_file_index |-> 0,
     total_files |-> 0, archive_buffer |-> <<>>, display_mode |-> "Double"]

\* ImageViewer::default(); current_file None is the empty path
ImageViewerDefault ==
    [current_file |-> NoPath, status_message |-> "", archive_files |-> <<>>,
     current_file_index |-> 0, total_files |-> 0, display_mode |-> "Double",
     image_handles |-> <<>>]

set_archive_files(s, fs) ==
    [s EXCEPT !.archive_files = fs, !.total_files = Len(fs), !.current_file_index = 0]

set_current_index(s, index) ==
    IF index < s.total_files THEN [s EXCEPT !.current_file_index = index] ELSE s

\* variant: previous_page steps back one file in either mode
previous_page_ByOne(s) ==
    IF s.current_file_index > 0 THEN [s EXCEPT !.current_file_index = @ - 1] ELSE s

next_page(s) ==
    IF s.display_mode = "Single"
    THEN IF s.current_file_index + 1 < s.total_files
         THEN [s EXCEPT !.current_file_index = @ + 1] ELSE s
    ELSE IF s.current_file_index + 2 < s.total_files
         THEN [s EXCEPT !.current_file_index = @ + 2] ELSE s

previous_page(s) ==
    IF s.display_mode = "Single"
    THEN IF s.current_file_index > 0
         THEN [s EXCEPT !.current_file_index = @ - 1] ELSE s
    ELSE IF s.current_file_index >= 2
         THEN [s EXCEPT !.current_file_index = @ - 2] ELSE s

next_file(s) ==
    IF s.current_file_index + 1 < s.total_files
    THEN [s EXCEPT !.current_file_index = @ + 1] ELSE s

previous_file(s) ==
    IF s.current_file_index > 0 THEN [s EXCEPT !.current_file_index = @ - 1] ELSE s

goto_first_page(s) == [s EXCEPT !.current_file_index = 0]

\* variant: the start of the last spread of an even-length archive, in
\* either mode
goto_last_page_LastSpread(s) ==
    IF s.total_files > 0
    THEN [s EXCEPT !.current_file_index = IF s.total_files >= 2 THEN s.total_files - 2 ELSE 0]
    ELSE s

goto_last_page(s) ==
    IF s.total_files > 0
    THEN IF s.display_mode = "Single"
         THEN [s EXCEPT !.current_file_index = s.total_files - 1]
         ELSE IF s.total_files >= 2
              THEN [s EXCEPT !.current_file_index =
                        IF s.total_files % 2 = 0 THEN s.total_files - 2
                        ELSE s.total_files - 1]
              ELSE [s EXCEPT !.current_file_index = 0]
    ELSE s

\* variant: goto_page moves without looking at total_files
goto_page_Unchecked(s, page_number) == [s EXCEPT !.current_file_index = page_number]

goto_page(s, page_number) ==
    IF s.display_mode = "Single"
    THEN IF page_number < s.total_files
         THEN [s EXCEPT !.current_file_index = page_number] ELSE s
    ELSE LET adjusted_page == IF page_number % 2 = 0 THEN page_number
                              ELSE page_number - 1
         IN  IF adjusted_page < s.total_files
             THEN [s EXCEPT !.current_file_index = adjusted_page] ELSE s

has_next_page(s) ==
    IF s.display_mode = "Single" THEN s.current_file_index + 1 < s.total_files
    ELSE s.current_file_index + 2 < s.total_files

set_display_mode(s, mode) ==
    LET t == [s EXCEPT !.display_mode = mode]
    IN  IF mode = "Double" /\ t.current_file_index % 2 # 0 /\ t.current_file_index > 0
        THEN [t EXCEPT !.current_file_index = @ - 1]
        ELSE t

reset(s) ==
    [s EXCEPT !.archive_files = <<>>, !.archive_buffer = <<>>,
              !.current_file_index = 0, !.total_files = 0]

(***************************************************************************)
(* The lib's controller: FileHandler (controller/file_handler.rs),         *)
(* AppController (controller/app_controller.rs), KeyboardHandler           *)
(* (controller/keyboard_handler.rs), and the decompression dispatch of     *)
(* ArchiveManager (model/archive_manager.rs)                               *)
(***************************************************************************)
\* is_archive_file (main.rs); FileHandler::is_supported_file matches the
\* same four lower-cased extensions
is_archive_file(path) == to_lowercase(path.ext) \in ArchiveExtensions

ends_with(s, suffix) ==
    Len(s) >= Len(suffix) /\ SubSeq(s, Len(s) - Len(suffix) + 1, Len(s)) = suffix

\* FileHandler::is_image_file: the name ends with one of the dotted
\* extensions, among them ".ico", ".svg" and ".avif"
FileHandler_is_image_file(filename) ==
    \E ext \in ImageExtensions \cup {<<105, 99, 111>>, <<115, 118, 103>>, <<97, 118, 105, 102>>} :
        ends_with(to_lowercase(filename), <<46>> \o ext)

Loaded(kind, buffer, fs) == [kind |-> kind, buffer |-> buffer, files |-> fs]

\* FileHandler::load_file_async: the extension test, the read of the whole
\* file, process_archive, the image filter
load_file_async(path) ==
    IF ~is_archive_file(path) THEN Loaded("Err", <<>>, <<>>)
    ELSE LET buffer == FileBytes(path)
             parsed == Parsed(path)
             image_files == SelectSeq(parsed.files, LAMBDA f : FileHandler_is_image_file(f.filename))
         IN  IF parsed.kind # "Ok" THEN Loaded("Err", <<>>, <<>>)
             ELSE IF image_files = <<>> THEN Loaded("Err", <<>>, <<>>)
             ELSE Loaded("Ok", buffer, image_files)

\* FileHandler::handle_file_drop, also reached by IpcFileReceived
HandleFileDrop ==
    /\ Len(tasks) < MaxTasks
    /\ \E path \in Paths :
          /\ state' = [state EXCEPT !.current_file_path = path]
          /\ tasks' = Append(tasks, [msg |-> "FileLoaded", path |-> path])
    /\ op' = [fn |-> "handle_file_drop"]
    /\ UNCHANGED <<core, ipc, viewer>>

\* AppController::handle_file_loaded on the result of a load that completed
HandleFileLoaded ==
    /\ \E t \in InFlight(tasks) :
          /\ t.msg = "FileLoaded"
          /\ \E loaded \in {load_file_async(t.path)} :
                /\ state' = IF loaded.kind = "Ok"
                            THEN set_archive_files([state EXCEPT !.archive_buffer = loaded.buffer],
                                                   loaded.files)
                            ELSE reset(state)
                /\ op' = [fn |-> "handle_file_loaded", kind |-> loaded.kind]
          /\ tasks' = Without(tasks, t)
    /\ UNCHANGED <<core, ipc, viewer>>

Keys ==
    {"ArrowLeft", "ArrowRight", "ArrowUp", "ArrowDown", "1", "2", "Home", "End",
     "PageUp", "PageDown", "Space", "Backspace"}

\* the PageManager function a key is bound to
KeyBinding(key) ==
    CASE key \in {"ArrowLeft", "PageDown", "Space"} -> "next_page"
      [] key \in {"ArrowRight", "PageUp", "Backspace"} -> "previous_page"
      [] key = "ArrowUp" -> "previous_file"
      [] key = "ArrowDown" -> "next_file"
      [] key = "1" -> "set_display_mode(Single)"
      [] key = "2" -> "set_display_mode(Double)"
      [] key = "Home" -> "goto_first_page"
      [] key = "End" -> "goto_last_page"

\* KeyboardHandler::handle_key_press
HandleKeyPress ==
    /\ \E key \in Keys :
          LET fn == KeyBinding(key)
          IN  /\ state' = CASE fn = "next_page" -> next_page(state)
                            [] fn = "previous_page" -> previous_page(state)
                            [] fn = "previous_file" -> previous_file(state)
                            [] fn = "next_file" -> next_file(state)
                            [] fn = "set_display_mode(Single)" -> set_display_mode(state, "Single")
                            [] fn = "set_display_mode(Double)" -> set_display_mode(state, "Double")
                            [] fn = "goto_first_page" -> goto_first_page(state)
                            [] fn = "goto_last_page" -> goto_last_page(state)
              /\ op' = [fn |-> fn, before |-> state.current_file_index]
    /\ UNCHANGED <<core, ipc, viewer, tasks>>

\* AppController::goto_page
GotoPage ==
    /\ \E page \in 0 .. MaxPages + 1 :
          /\ state' = goto_page(state, page)
          /\ op' = [fn |-> "goto_page", page |-> page]
    /\ UNCHANGED <<core, ipc, viewer, tasks>>

\* AppState::set_current_index
SetCurrentIndex ==
    /\ \E index \in 0 .. MaxPages + 1 :
          /\ state' = set_current_index(state, index)
          /\ op' = [fn |-> "set_current_index", index |-> index]
    /\ UNCHANGED <<core, ipc, viewer, tasks>>

\* AppController::reset_application
ResetApplication ==
    /\ state' = reset(state)
    /\ op' = [fn |-> "reset"]
    /\ UNCHANGED <<core, ipc, viewer, tasks>>

CompressionTypes == {"Uncompress", "Unsupported", "Deflate", "Deflate64", "Rar5", "Rar4"}

\* ArchiveManager::decompress_file_data
decompress_file_data(buffer, file) ==
    CASE file.ctype = "Uncompress" ->
            read_uncompressed_data(buffer, file.offset, file.size, overflow_checks)
      [] file.ctype \in {"Deflate", "Deflate64"} ->
            uncomp_deflate(buffer, file.offset, file.size, overflow_checks,
                           Inflates(Slice(buffer, file.offset, file.offset + file.size)))
      [] file.ctype \in {"Rar5", "Rar4"} -> Access("DecompressionError", <<>>, FALSE)
      [] file.ctype = "Unsupported" -> Access("DecompressionError", <<>>, FALSE)

is_supported_compression(compression_type) ==
    compression_type \in {"Uncompress", "Deflate", "Deflate64"}

\* ArchiveManager::decompress_file_data on a member of the loaded archive,
\* under each compression type a MemberFile can carry
DecompressFileData ==
    /\ \E i \in 1 .. Len(state.archive_files), ctype \in CompressionTypes :
          LET file == [state.archive_files[i] EXCEPT !.ctype = ctype]
          IN  op' = [fn |-> "decompress_file_data", file |-> file,
                     ret |-> decompress_file_data(state.archive_buffer, file)]
    /\ UNCHANGED <<core, ipc, viewer, state, tasks>>

(***************************************************************************)
(* ImageViewer (main.rs): update, one action per message, and the          *)
(* asynchronous loads it starts.  A task in flight carries the arguments   *)
(* its future was built with and the message it will deliver; the future   *)
(* runs when the task completes (the files on disk do not change).         *)
(* The messages that only change how a page is drawn (rotation, flip,      *)
(* overlay, full size, window size) are left out.                          *)
(***************************************************************************)
\* path.file_name()
file_name(path) == path.stem \o <<46>> \o path.ext

is_image_file(path) == to_lowercase(path.ext) \in ImageExtensions

\* filename_lower.split('.').last() is one of the image extensions
is_image_filename(filename) == AfterLast(to_lowercase(filename), {46}) \in ImageExtensions

\* load_archive: the parser chosen by the extension; an archive without
\* members is an error
load_archive(path) ==
    LET parsed == Parsed(path)
    IN  IF parsed.kind # "Ok" \/ parsed.files = <<>>
        THEN Loaded("Err", <<>>, <<>>)
        ELSE Loaded("Ok", <<>>, parsed.files)

load_single_image_as_archive(path) ==
    Loaded("Ok", <<>>, << MemberFile(file_name(path), file_name(path), 0, Len(FileBytes(path)),
                                     Len(FileBytes(path)), "Uncompress") >>)

Extracted(kind, handle) == [kind |-> kind, handle |-> handle]

\* extract_single_image_from_archive with extract_deflate_image and
\* decompress_deflate; the Handle is the picture, told by its bytes
extract_single_image_from_archive(buffer, file) ==
    CASE file.ctype = "Uncompress" ->
            LET r == CheckedRead(buffer, file.offset, file.size, overflow_checks)
            IN  IF r.kind # "Ok" THEN Extracted(r.kind, <<>>)
                ELSE IF ~IsImage(r.data) THEN Extracted("DecodeError", <<>>)
                ELSE Extracted("Ok", r.data)
      [] file.ctype = "Deflate" ->
            LET r == uncomp_deflate(buffer, file.offset, file.size, overflow_checks,
                                    Inflates(Slice(buffer, file.offset, file.offset + file.size)))
            IN  IF r.kind # "Ok" THEN Extracted(r.kind, <<>>)
                ELSE IF ~IsImage(r.data) THEN Extracted("DecodeError", <<>>)
                ELSE Extracted("Ok", r.data)
      [] OTHER -> Extracted("UnsupportedCompression", <<>>)

\* load_images_from_archive: maps the file anew and extracts the members in
\* turn; the first failure is the result
load_images_from_archive(path, fs) ==
    LET mmap == FileBytes(path)
        rs == [i \in 1 .. Len(fs) |-> extract_single_image_from_archive(mmap, fs[i])]
        bad == {i \in 1 .. Len(fs) : rs[i].kind # "Ok"}
    IN  IF bad = {} THEN [kind |-> "Ok", handles |-> [i \in 1 .. Len(fs) |-> rs[i].handle]]
        ELSE [kind |-> rs[SetMin(bad)].kind, handles |-> <<>>]

\* archive_files.get(index)
Get(fs, index) == IF index < Len(fs) THEN <<fs[index + 1]>> ELSE <<>>

\* load_current_page_images: the task it returns, if any
load_current_page_images(v) ==
    LET files_to_load ==
            IF v.display_mode = "Single" THEN Get(v.archive_files, v.current_file_index)
            ELSE Get(v.archive_files, v.current_file_index)
                 \o Get(v.archive_files, v.current_file_index + 1)
    IN  IF v.archive_files = <<>> \/ v.current_file = NoPath THEN <<>>
        ELSE IF files_to_load = <<>> THEN <<>>
        ELSE << [msg |-> "ImagesLoaded", path |-> v.current_file, files |-> files_to_load] >>

\* Message::FileDropped, also reached by IpcFileReceived and by the file
\* named on the command line
FileDropped ==
    /\ Len(tasks) < MaxTasks
    /\ \E path \in Dropped :
          IF is_archive_file(path)
          THEN /\ viewer' = [viewer EXCEPT !.current_file = path, !.status_message = "loading"]
               /\ tasks' = Append(tasks, [msg |-> "ArchiveLoaded", path |-> path,
                                               load |-> "load_archive"])
          ELSE IF is_image_file(path)
          THEN /\ viewer' = [viewer EXCEPT !.current_file = path, !.status_message = "loading"]
               /\ tasks' = Append(tasks, [msg |-> "ArchiveLoaded", path |-> path,
                                               load |-> "load_single_image_as_archive"])
          ELSE /\ viewer' = [viewer EXCEPT !.status_message = "unsupported file"]
               /\ tasks' = tasks
    /\ UNCHANGED <<core, ipc, state, op>>

\* Message::ArchiveLoaded
ArchiveLoaded ==
    /\ \E t \in InFlight(tasks) :
          /\ t.msg = "ArchiveLoaded"
          /\ LET archive == IF t.load = "load_archive" THEN load_archive(t.path)
                            ELSE load_single_image_as_archive(t.path)
                 image_files == SelectSeq(archive.files,
                                          LAMBDA f : is_image_filename(f.filename))
                 loaded == [viewer EXCEPT !.archive_files = image_files,
                                          !.total_files = Len(image_files),
                                          !.current_file_index = 0,
                                          !.status_message = "images loaded"]
             IN  IF archive.kind # "Ok"
                 THEN /\ viewer' = [viewer EXCEPT !.status_message = "archive error"]
                      /\ tasks' = Without(tasks, t)
                 ELSE IF image_files = <<>>
                 THEN /\ viewer' = [viewer EXCEPT !.status_message = "no images"]
                      /\ tasks' = Without(tasks, t)
                 ELSE /\ viewer' = loaded
                      /\ tasks' = Without(tasks, t) \o load_current_page_images(loaded)
    /\ UNCHANGED <<core, ipc, state, op>>

\* variant: a failed page load drops the archive
ImagesLoadedErr_Reset(v) ==
    [v EXCEPT !.status_message = "image error", !.archive_files = <<>>,
              !.total_files = 0, !.current_file_index = 0]

\* Err(error) => self.status_message = format!(..)
ImagesLoadedErr(v) == [v EXCEPT !.status_message = "image error"]

\* Message::ImagesLoaded; update_status_message writes the page info when
\* an archive is loaded
ImagesLoaded ==
    /\ \E t \in InFlight(tasks) :
          /\ t.msg = "ImagesLoaded"
          /\ viewer' = IF load_images_from_archive(t.path, t.files).kind = "Ok"
                       THEN [viewer EXCEPT !.image_handles =
                                               load_images_from_archive(t.path, t.files).handles,
                                           !.status_message =
                                               IF viewer.archive_files # <<>>
                                               THEN "page info" ELSE @]
                       ELSE ImagesLoadedErr(viewer)
          /\ tasks' = Without(tasks, t)
    /\ UNCHANGED <<core, ipc, state, op>>

\* The navigation messages: the index or the mode changes, then
\* `return self.load_current_page_images()`.

\* Message::NextPage
NextPage ==
    /\ Len(tasks) < MaxTasks
    /\ viewer' = next_page(viewer)
    /\ tasks' = tasks \o load_current_page_images(viewer')
    /\ UNCHANGED <<core, ipc, state, op>>

\* Message::PreviousPage
PreviousPage ==
    /\ Len(tasks) < MaxTasks
    /\ viewer' = previous_page(viewer)
    /\ tasks' = tasks \o load_current_page_images(viewer')
    /\ UNCHANGED <<core, ipc, state, op>>

\* Message::NextFile
NextFile ==
    /\ Len(tasks) < MaxTasks
    /\ viewer' = next_file(viewer)
    /\ tasks' = tasks \o load_current_page_images(viewer')
    /\ UNCHANGED <<core, ipc, state, op>>

\* Message::PreviousFile
PreviousFile ==
    /\ Len(tasks) < MaxTasks
    /\ viewer' = previous_file(viewer)
    /\ tasks' = tasks \o load_current_page_images(viewer')
    /\ UNCHANGED <<core, ipc, state, op>>

\* Message::SetSingleMode
SetSingleMode ==
    /\ Len(tasks) < MaxTasks
    /\ viewer' = [viewer EXCEPT !.display_mode = "Single"]
    /\ tasks' = tasks \o load_current_page_images(viewer')
    /\ UNCHANGED <<core, ipc, state, op>>

\* Message::SetDoubleMode: the mode, then an odd index steps back to the even one
SetDoubleMode ==
    /\ Len(tasks) < MaxTasks
    /\ viewer' = set_display_mode(viewer, "Double")
    /\ tasks' = tasks \o load_current_page_images(viewer')
    /\ UNCHANGED <<core, ipc, state, op>>

\* Message::GotoFirstPage
GotoFirstPage ==
    /\ Len(tasks) < MaxTasks
    /\ viewer' = goto_first_page(viewer)
    /\ tasks' = tasks \o load_current_page_images(viewer')
    /\ UNCHANGED <<core, ipc, state, op>>

\* Message::GotoLastPage; without files nothing changes and no task starts
GotoLastPage ==
    /\ Len(tasks) < MaxTasks
    /\ viewer' = goto_last_page(viewer)
    /\ tasks' = tasks \o load_current_page_images(viewer')
    /\ UNCHANGED <<core, ipc, state, op>>

\* Message::ClearFile
ClearFile ==
    /\ viewer' = [ImageViewerDefault EXCEPT !.status_message = "drop a file"]
    /\ UNCHANGED <<core, ipc, state, op, tasks>>

(***************************************************************************)
(* The single-instance socket (ipc.rs).  Each process started by the user  *)
(* calls try_become_primary from main; the calls of different processes    *)
(* interleave at their system calls.  socket.file is the socket file at    *)
(* get_socket_path(): 0 when there is none, else the process whose bind    *)
(* created it.  A listener lives as long as its process, also after its    *)
(* file has been removed; nothing removes the file when a process exits.   *)
(***************************************************************************)
MaxProcs == 3

Procs == 1 .. MaxProcs

\* A process: where main stands, its argument, what try_become_primary
\* returned, whether its listener thread is alive, and (secondary) the
\* primary it has written its path to.  A primary also has the connections
\* its listening socket holds (backlog: the lines written to each), the mpsc
\* channel between the listener thread and the subscription, whether the
\* viewer's ipc_receiver holds the receiver, and two logs: the lines
\* handle_connection has read and the IpcFileReceived messages update has
\* been given.
NotStarted ==
    [pc |-> "idle", file_path |-> NoPath, result |-> "none", listener |-> FALSE, sent |-> 0,
     backlog |-> <<>>, channel |-> <<>>, ipc_receiver |-> FALSE,
     read |-> <<>>, received |-> <<>>]

\* UnixStream::connect succeeds: the file exists and the listener that
\* created it is alive
Connects == socket.file # 0 /\ procs[socket.file].listener

\* main: Args::parse(), then ipc::try_become_primary(args.file.clone())
Start(p) ==
    /\ procs[p].pc = "idle"
    /\ \E file_path \in {NoPath, ArchiveA} :
          procs' = [procs EXCEPT ![p].pc = "connect", ![p].file_path = file_path]
    /\ UNCHANGED <<core, gui, socket>>

\* if let Ok(mut stream) = UnixStream::connect(&socket_path): the path is
\* written to the stream, Secondary is returned and main exits
Connect(p) ==
    /\ procs[p].pc = "connect"
    /\ procs' = IF Connects
                THEN LET lines == IF procs[p].file_path # NoPath
                                  THEN <<[from |-> p, path |-> procs[p].file_path]>>
                                  ELSE <<>>
                     IN  [procs EXCEPT ![p].pc = "exited", ![p].result = "Secondary",
                                       ![p].sent = IF procs[p].file_path # NoPath
                                                   THEN socket.file ELSE 0,
                                       ![socket.file].backlog = Append(@, lines)]
                ELSE [procs EXCEPT ![p].pc = "exists"]
    /\ UNCHANGED <<core, gui, socket>>

\* if socket_path.exists()
Exists(p) ==
    /\ procs[p].pc = "exists"
    /\ procs' = [procs EXCEPT ![p].pc = IF socket.file # 0 THEN "remove_file" ELSE "bind"]
    /\ UNCHANGED <<core, gui, socket>>

\* std::fs::remove_file(&socket_path); a failure is logged
RemoveFile(p) ==
    /\ procs[p].pc = "remove_file"
    /\ socket' = [socket EXCEPT !.file = 0]
    /\ procs' = [procs EXCEPT ![p].pc = "bind"]
    /\ UNCHANGED <<core, gui>>

\* UnixListener::bind(&socket_path): Ok starts the listener thread, Err
\* (the file exists) is logged; Primary is returned either way, and main
\* hands the receiver to the viewer (ipc_receiver)
Bind(p) ==
    /\ procs[p].pc = "bind"
    /\ IF socket.file = 0
       THEN /\ socket' = [socket EXCEPT !.file = p]
            /\ procs' = [procs EXCEPT ![p].pc = "running", ![p].result = "Primary",
                                      ![p].listener = TRUE, ![p].ipc_receiver = TRUE]
       ELSE /\ socket' = socket
            /\ procs' = [procs EXCEPT ![p].pc = "running", ![p].result = "Primary",
                                      ![p].ipc_receiver = TRUE]
    /\ UNCHANGED <<core, gui>>

\* rx.try_recv() on a channel that holds a path: the oldest one
try_recv(channel) == [path |-> Head(channel), rest |-> Tail(channel)]

\* listener_loop of a primary: accept() hands over the oldest connection and
\* handle_connection reads its lines to the end, sending every non-empty one
\* into the channel (WouldBlock: sleep and try again)
ListenerLoop(p) ==
    /\ procs[p].listener
    /\ procs[p].backlog # <<>>
    /\ LET lines == SelectSeq(Head(procs[p].backlog), LAMBDA l : l.path # NoPath)
       IN  procs' = [procs EXCEPT ![p].backlog = Tail(@),
                                  ![p].channel = @ \o lines,
                                  ![p].read = @ \o lines]
    /\ UNCHANGED <<core, gui, socket>>

\* ipc_subscription of a primary, built from the viewer's ipc_receiver: a
\* path taken from the channel is yielded and handed to update as
\* Message::IpcFileReceived; without a receiver, or with an empty channel,
\* the loop sleeps and tries again
IpcSubscription(p) ==
    /\ procs[p].pc = "running"
    /\ procs[p].ipc_receiver
    /\ procs[p].channel # <<>>
    /\ LET r == try_recv(procs[p].channel)
       IN  procs' = [procs EXCEPT ![p].channel = r.rest,
                                  ![p].received = Append(@, r.path)]
    /\ UNCHANGED <<core, gui, socket>>

\* Message::ClearFile in a primary: *self = Self::default(), which also
\* replaces ipc_receiver by Arc::new(Mutex::new(None))
ClearFileOf(p) ==
    /\ procs[p].pc = "running"
    /\ procs' = [procs EXCEPT ![p].ipc_receiver = FALSE]
    /\ UNCHANGED <<core, gui, socket>>

\* the window of a primary is closed, or the process is killed
Exit(p) ==
    /\ procs[p].pc = "running"
    /\ procs' = [procs EXCEPT ![p].pc = "exited", ![p].listener = FALSE]
    /\ UNCHANGED <<core, gui, socket>>

(***************************************************************************)
(* The specifications of the front ends                                    *)
(***************************************************************************)
CoreIdle ==
    /\ buf = <<>>
    /\ input = [kind |-> "none"]
    /\ overflow_checks = TRUE
    /\ pc = "idle"
    /\ offset = 0
    /\ files = <<>>
    /\ result = "none"
    /\ trace = <<>>
    /\ call = [fn |-> "none"]

GuiIdle ==
    /\ viewer = ImageViewerDefault
    /\ state = AppStateDefault
    /\ tasks = <<>>
    /\ op = [fn |-> "none"]

IpcIdle ==
    /\ procs = [p \in Procs |-> NotStarted]
    /\ socket = [file |-> 0]

\* AppController::initialize
AppInit == CoreIdle /\ GuiIdle /\ IpcIdle

AppNext ==
    \/ HandleFileDrop
    \/ HandleFileLoaded
    \/ HandleKeyPress
    \/ GotoPage
    \/ SetCurrentIndex
    \/ ResetApplication
    \/ DecompressFileData

AppSpec == AppInit /\ [][AppNext]_vars

\* the application starts with ImageViewer::default()
ViewerInit == CoreIdle /\ GuiIdle /\ IpcIdle

ViewerNext ==
    \/ FileDropped
    \/ ArchiveLoaded
    \/ ImagesLoaded
    \/ NextPage
    \/ PreviousPage
    \/ NextFile
    \/ PreviousFile
    \/ SetSingleMode
    \/ SetDoubleMode
    \/ GotoFirstPage
    \/ GotoLastPage
    \/ ClearFile

ViewerSpec == ViewerInit /\ [][ViewerNext]_vars

\* no process is running and there is no socket file
IpcInit == CoreIdle /\ GuiIdle /\ IpcIdle

IpcNext ==
    \E p \in Procs :
        \/ Start(p)
        \/ Connect(p)
        \/ Exists(p)
        \/ RemoveFile(p)
        \/ Bind(p)
        \/ ListenerLoop(p)
        \/ IpcSubscription(p)
        \/ ClearFileOf(p)
        \/ Exit(p)

IpcSpec == IpcInit /\ [][IpcNext]_vars

\* the listener thread and the subscription poll of every primary keep
\* being scheduled
IpcLiveSpec ==
    /\ IpcInit /\ [][IpcNext]_vars
    /\ \A p \in Procs : WF_vars(ListenerLoop(p)) /\ WF_vars(IpcSubscription(p))



(***************************************************************************)
(* The session                                                             *)
(***************************************************************************)
Bytes(in) ==
    CASE in.kind = "zip"  -> ZipBytes(in)
      [] in.kind = "rar4" -> Rar4Bytes(in)
      [] in.kind = "rar5" -> Rar5Bytes(in)
      [] in.kind = "raw"  -> RawBytes(in)
      [] in.kind = "vint" -> VintBytes(in)
      [] in.kind = "names" -> <<>>

\* the bytes of an input with its last `cut` bytes missing
BufferOf(in) == SubSeq(Bytes(in), 1, Len(Bytes(in)) - in.cut)

\* one archive of each format, cut short at every length
Truncated(in) == { [in EXCEPT !.cut = k] : k \in 1 .. Len(Bytes(in)) }

TruncatedInputs(kind) ==
    CASE kind = "zip" ->
            Truncated([kind |-> "zip", stub |-> <<>>,
                       entries |-> <<ZE(0, <<97>>, <<>>, <<104, 105>>, 1, 2, 2),
                                     ZE(8, <<100, 47, 98>>, <<1, 2>>, <<7>>, 3, 1, 5)>>,
                       tail |-> <<>>, cut |-> 0])
      [] kind = "rar4" ->
            Truncated([kind |-> "rar4",
                       entries |-> <<R4F(32768, <<98>>, 32, 1, 1, 0, 0, 9, <<3>>)>>,
                       tail |-> R4End, cut |-> 0])
      [] kind = "rar5" ->
            Truncated([kind |-> "rar5",
                       entries |-> <<R5F(2, TRUE, 6, 300, <<100, 47, 98>>, 3, <<3, 1, 0>>, 1, <<7>>)>>,
                       tail |-> R5End, cut |-> 0])
      [] OTHER -> {}

InputKinds == {"zip", "rar4", "rar5", "raw", "vint", "names"}

InputsOf(kind) ==
    TruncatedInputs(kind) \cup
    (CASE kind = "zip"  -> ZipInputs
       [] kind = "rar4" -> Rar4Inputs
       [] kind = "rar5" -> Rar5Inputs
       [] kind = "raw"  -> RawInputs
       [] kind = "vint" -> VintInputs
       [] kind = "names" -> NameInputs)

Init ==
    /\ \E kind \in InputKinds : input \in InputsOf(kind)
    /\ buf = BufferOf(input)
    /\ overflow_checks \in BOOLEAN
    /\ pc = "idle"
    /\ offset = 0
    /\ files = <<>>
    /\ result = "none"
    /\ trace = <<>>
    /\ call = [fn |-> "none"]
    /\ GuiIdle
    /\ IpcIdle

Next ==
    \/ Detect
    \/ ReadVint
    \/ DataAccess
    \/ ZipReadArchive
    \/ ZipBlock
    \/ ReadMember
    \/ Rar4ReadArchive
    \/ Rar4Block
    \/ Rar5ReadArchive
    \/ Rar5Block
    \/ SortFilename
    \/ DetectRarVersion
    \/ RarHandlerReadArchive
    \/ RarHandlerReturn
    \/ ProcessArchive
    \/ ProcessArchiveReturn

Spec == Init /\ [][Next]_vars

(***************************************************************************)
(* Properties                                                              *)
(***************************************************************************)
TypedResults == {"Ok", "CorruptedArchive", "OutOfBounds", "HeaderParseError"}

Returned == pc = "returned"

\* C1: every MemberFile of a list a successful read_archive returned lies
\* inside the buffer: offset + size <= buffer length (a header whose data
\* range runs past the end makes the parse fail instead).
C1_MembersInsideBuffer ==
    (Returned /\ result = "Ok") =>
        \A i \in 1 .. Len(files) : files[i].offset + files[i].size <= Len(buf)

\* C2: a data-access request with offset + size greater than the buffer
\* length returns OutOfBounds and takes no slice of the buffer, for every
\* offset and size, those whose sum does not fit the machine word included.
C2_PastEndIsOutOfBounds ==
    (call.fn \in AccessFns /\ call.offset + call.size > Len(buf)) =>
        (call.ret.kind = "OutOfBounds" /\ ~call.ret.sliced)

\* C3: on every buffer, truncated and garbage ones included, each
\* read_archive finishes with Ok or a typed error, never with a panic (an
\* index out of range, an overflow, a failed assert, an unwrap of an error).
C3_ParsersReturnTyped == Returned => result \in TypedResults

FileTypes == {"Zip", "Rar4", "Rar5", "Unsupported"}

\* C4: on every non-empty buffer check_file_type returns one of Zip, Rar4,
\* Rar5, Unsupported, also when a first signature byte lies near the end of
\* the buffer with no complete signature after it.
C4_DetectionIsTotal ==
    (call.fn = "check_file_type" /\ Len(buf) > 0) => call.ret \in FileTypes

StartsWith(data, sig) == Len(data) >= Len(sig) /\ SubSeq(data, 1, Len(sig)) = sig

\* the classification by leading bytes
LeadingType(data) ==
    IF data = <<>> THEN "CorruptedArchive"
    ELSE IF StartsWith(data, RAR5_SIGNATURE) THEN "Rar5"
    ELSE IF StartsWith(data, RAR4_SIGNATURE) THEN "Rar4"
    ELSE IF StartsWith(data, ZIP_SIGNATURE) THEN "Zip"
    ELSE "Unsupported"

\* C5: check_file_type classifies a buffer by its leading bytes, whatever
\* follows them: the RAR5, RAR4 or ZIP signature at offset 0 gives Rar5, Rar4
\* or Zip, an empty buffer fails with CorruptedArchive, anything else gives
\* Unsupported.
C5_ClassifiedByLeadingBytes ==
    call.fn = "check_file_type" => call.ret = LeadingType(buf)

\* what the ZIP format assigns to a method code
ZipMethodType(method) ==
    IF method = 0 THEN "Uncompress"
    ELSE IF method = 8 THEN "Deflate"
    ELSE IF method = 9 THEN "Deflate64"
    ELSE "Unsupported"

ZipHasData(e) == e.csize > 0

\* the members a run of local file headers holds, in archive order
RECURSIVE ZipExpected(_, _)
ZipExpected(es, i) ==
    IF i > Len(es) THEN <<>>
    ELSE (IF ZipHasData(es[i])
          THEN <<MemberFile(es[i].name, es[i].name,
                            ZipHeaderStart(es, i) + 30 + Len(es[i].name) + Len(es[i].extra),
                            es[i].csize, es[i].ucsize, ZipMethodType(es[i].method))>>
          ELSE <<>>)
         \o ZipExpected(es, i + 1)

\* C6: on a buffer of consecutive well-formed ZIP local file headers
\* starting at offset 0, read_archive returns Ok with one MemberFile for each
\* header of compressed size > 0, in archive order, with offset = header
\* start + 30 + name length + extra length, size = compressed size, fsize =
\* uncompressed size, the name bytes as name and the method's compression
\* type; read_data on a member's range returns exactly its stored bytes.
C6_ZipRoundTrip ==
    (ZipWellFormed(input) /\ Returned) =>
        /\ result = "Ok"
        /\ files = ZipExpected(input.entries, 1)
        /\ call.fn = "ZipReader::read_data" =>
              /\ call.ret.kind = "Ok"
              /\ call.ret.data = SelectSeq(input.entries, ZipHasData)[call.member].data

\* a read of the second of two members, a deflated one, has returned
C6_Witness ==
    /\ ZipWellFormed(input)
    /\ Returned
    /\ Len(files) = 2
    /\ files[2].ctype = "Deflate"
    /\ call.fn = "ZipReader::read_data"
    /\ call.member = 2
    /\ call.ret.data = <<7>>

R5IsDirectory(f) == BitSet(f.fflag, 1)

\* where block i's data area starts: after its name bytes and extra area
Rar5DataStart(bs, i) == Rar5BlockStart(bs, i) + Len(R5BlockBytes(bs[i])) - Len(bs[i].data)

R5Member(bs, i) ==
    MemberFile(bs[i].name, bs[i].name, Rar5DataStart(bs, i), bs[i].dsize, bs[i].unp, "Unset")

\* the members of the file headers with a data area; directories are left
\* out when nodirs
RECURSIVE Rar5Expected(_, _, _)
Rar5Expected(bs, i, nodirs) ==
    IF i > Len(bs) THEN <<>>
    ELSE (IF bs[i].type = 2 /\ bs[i].has_data /\ ~(nodirs /\ R5IsDirectory(bs[i]))
          THEN <<R5Member(bs, i)>>
          ELSE <<>>)
         \o Rar5Expected(bs, i + 1, nodirs)

\* every member is followed by a header read at offset + size
NextHeaderAfterData ==
    \A k \in 1 .. Len(files) :
        \E j \in 1 .. Len(trace) : trace[j].pos = files[k].offset + files[k].size

\* C7, for non-directories: a well-formed RAR5 file header (type 2) with the has-data
\* flag set and the directory flag clear yields a MemberFile whose offset is
\* the position right after the name bytes and the extra area, whose size is
\* data-size and whose fsize is unpacked-size, and the next block header is
\* read at offset + size; a header with the directory flag yields none.
C7_Rar5FileMembers ==
    (Rar5WellFormed(input) /\ Returned) =>
        /\ result = "Ok"
        /\ files = Rar5Expected(input.entries, 1, TRUE)
        /\ NextHeaderAfterData

\* a walk over a file with an extra area and a directory that has a data
\* area has returned one member
C7_Witness ==
    /\ Rar5WellFormed(input)
    /\ Returned
    /\ Len(input.entries) = 2
    /\ input.entries[1].extra # <<>>
    /\ input.entries[2].has_data /\ R5IsDirectory(input.entries[2])
    /\ Len(files) = 1
    /\ files[1].size = 1

\* C7, without the directory condition: every well-formed type-2 header with the
\* has-data flag set yields a MemberFile (offset after name and extra area,
\* size = data-size, fsize = unpacked-size).
C7_AsStated ==
    (Rar5WellFormed(input) /\ Returned) =>
        /\ result = "Ok"
        /\ files = Rar5Expected(input.entries, 1, FALSE)

\* the high and the low 32 bits of a 64-bit value
High32(x) == (x \div 65536) \div 65536

Low32(x) == x - (High32(x) * 65536) * 65536

\* C8: for a RAR4 FILE_HEAD with LHD_LARGE (0x0100) set, the MemberFile has
\* size = (HighPackSize << 32) | PackSize and fsize = (HighUnpSize << 32) |
\* UnpSize, and the walker skips that 64-bit packed size to the next block.
C8_LargeSizesCombined ==
    (/\ input.kind = "rar4"
     /\ input.cut = 0
     /\ Len(input.entries) = 1
     /\ R4Large(input.entries[1])
     /\ Returned) =>
        /\ result = "Ok"
        /\ Len(files) = 1
        /\ High32(files[1].size) = input.entries[1].hpack
        /\ Low32(files[1].size) = input.entries[1].pack
        /\ High32(files[1].fsize) = input.entries[1].hunp
        /\ Low32(files[1].fsize) = input.entries[1].unp
        /\ \E j \in 1 .. Len(trace) :
              /\ trace[j].type = 116
              /\ High32(trace[j].next - files[1].offset) = input.entries[1].hpack
              /\ Low32(trace[j].next - files[1].offset) = input.entries[1].pack

\* C9: read_vint at the start of the base-128 encoding of v returns v and a
\* consumed-byte count equal to the length of the encoding, whatever bytes
\* precede and follow the encoding.
C9_VintRoundTrip ==
    (input.kind = "vint" /\ call.fn = "read_vint") =>
        /\ call.ret.st = "ok"
        /\ call.ret.val = input.v
        /\ call.ret.len = Len(EncVint(input.v))

\* a three-byte encoding between other bytes has been decoded
C9_Witness ==
    /\ input.kind = "vint"
    /\ call.fn = "read_vint"
    /\ input.v = 16384
    /\ input.pre # <<>>
    /\ input.tail # <<>>
    /\ call.ret.len = 3

\* the bytes from pos on that have the high bit set, up to the first that
\* has not
VintRun(data, pos) ==
    LET stops == {i \in pos .. Len(data) - 1 : At(data, i) < 128}
    IN  IF stops = {} THEN Max0(Len(data) - pos) ELSE SetMin(stops) - pos

VintEnded(data, pos) ==
    pos < Len(data) /\ \E i \in pos .. Len(data) - 1 : At(data, i) < 128

\* C10: read_vint fails with OutOfBounds when the buffer ends before a byte
\* with the high bit clear is found (a read that starts at the end of the
\* buffer included) and with CorruptedArchive when more than 10 bytes would
\* be consumed; the caller sees a failure, never a decoded value or length.
C10_VintFailuresTyped ==
    call.fn = "read_vint" =>
        /\ (VintRun(buf, call.pos) >= VintMaxLen) => call.ret.st = "CorruptedArchive"
        /\ (~VintEnded(buf, call.pos) /\ VintRun(buf, call.pos) < VintMaxLen) =>
               call.ret.st = "OutOfBounds"

(***************************************************************************)
(* sort_filename                                                           *)
(***************************************************************************)
Sorted == pc = "sorted"

\* the number a run of digits denotes, compared without computing it
Significant(run) ==
    LET nz == {i \in 1 .. Len(run) : run[i] # 48}
    IN  IF nz = {} THEN <<>> ELSE SubSeq(run, SetMin(nz), Len(run))

NumLess(r1, r2) ==
    IF Len(Significant(r1)) # Len(Significant(r2))
    THEN Len(Significant(r1)) < Len(Significant(r2))
    ELSE StrCmp(Significant(r1), Significant(r2)) = "Less"

\* where the run of digits that holds the first difference of a and b begins
RunStart(a, b) ==
    LET diffs == {i \in 1 .. Min(Len(a), Len(b)) : a[i] # b[i]}
        cp    == IF diffs = {} THEN Min(Len(a), Len(b)) ELSE SetMin(diffs) - 1
        brk   == {i \in 1 .. cp : ~IsDigit(a[i])}
    IN  IF brk = {} THEN 0 ELSE CHOOSE i \in brk : \A j \in brk : j <= i

RunAt(a, k) == SubSeq(a, k + 1, k + LeadDigits(SubSeq(a, k + 1, Len(a))))

\* a and b differ only in one maximal run of digits
OneRunApart(a, b) ==
    LET k == RunStart(a, b)
    IN  /\ a # b
        /\ RunAt(a, k) # <<>>
        /\ RunAt(b, k) # <<>>
        /\ SubSeq(a, k + Len(RunAt(a, k)) + 1, Len(a)) = SubSeq(b, k + Len(RunAt(b, k)) + 1, Len(b))

\* C19: of two sorted records whose filepaths differ only in one maximal run
\* of digits, the one whose run denotes the smaller number comes first,
\* however many digits the runs have.
C19_NumericOrder ==
    Sorted =>
        \A i \in 1 .. Len(files) : \A j \in i + 1 .. Len(files) :
            LET a == files[i].filepath
                b == files[j].filepath
            IN  OneRunApart(a, b) =>
                    ~NumLess(RunAt(b, RunStart(a, b)), RunAt(a, RunStart(a, b)))

\* the outcome of the comparator on every pair of records: <<i, j, c>> for
\* SortCompare(recs[i], recs[j]) = c
CompareTable(recs) ==
    {<<i, j, SortCompare(recs[i], recs[j])>> : i \in 1 .. Len(recs), j \in 1 .. Len(recs)}

\* C20: the comparator of sort_filename is total (each pair compares Less,
\* Equal or Greater, and the other way round when the operands are swapped),
\* reflexive and transitive; the sorted vector holds the input records in
\* comparator order, and records that compare Equal keep their input order.
C20_TotalStableOrder ==
    Sorted =>
        \A recs \in {NameRecords(input.entries)} : \A tbl \in {CompareTable(recs)} :
            LET n == Len(recs)
            IN  /\ \A i \in 1 .. n : \A j \in 1 .. n :
                      /\ <<i, j, "Less">> \in tbl <=> <<j, i, "Greater">> \in tbl
                      /\ <<i, j, "Equal">> \in tbl <=> <<j, i, "Equal">> \in tbl
                      /\ recs[i].filepath = recs[j].filepath => <<i, j, "Equal">> \in tbl
                /\ \A i \in 1 .. n : \A j \in 1 .. n : \A k \in 1 .. n :
                      (<<i, j, "Greater">> \notin tbl /\ <<j, k, "Greater">> \notin tbl)
                          => <<i, k, "Greater">> \notin tbl
                /\ Len(files) = n
                /\ \A i \in 1 .. n : files[i].offset \in 1 .. n /\ files[i] = recs[files[i].offset]
                /\ \A i \in 1 .. n : \A j \in i + 1 .. n :
                      /\ files[i].offset # files[j].offset
                      /\ <<files[i].offset, files[j].offset, "Greater">> \notin tbl
                      /\ <<files[i].offset, files[j].offset, "Equal">> \in tbl
                             => files[i].offset < files[j].offset

\* three records, two of them with different paths and equal keys, and the
\* sort has moved the first one
C20_Witness ==
    /\ Sorted
    /\ Len(files) = 3
    /\ files[1].offset # 1
    /\ \E i \in 1 .. 2 :
          /\ SortCompare(files[i], files[i + 1]) = "Equal"
          /\ files[i].filepath # files[i + 1].filepath

(***************************************************************************)
(* ZIP archives behind a stub                                              *)
(***************************************************************************)
\* the members of a run of local file headers that begins at offset p
ZipExpectedFrom(es, p) ==
    [k \in 1 .. Len(ZipExpected(es, 1)) |->
        [ZipExpected(es, 1)[k] EXCEPT !.offset = @ + p]]

\* well-formed local file headers behind a stub that holds no signature
ZipStubbed(in) ==
    /\ in.kind = "zip"
    /\ in.stub # <<>>
    /\ in.cut = 0
    /\ \A i \in 1 .. Len(in.entries) : in.entries[i] \in ZipGood

\* C13: when check_file_type classifies a buffer as Zip because the
\* signature first occurs at a position p > 0, ZipReader::read_archive
\* parses the local file headers from p on and returns Ok with their
\* members, offsets counted from the start of the buffer.
C13_ZipWalksFromSignature ==
    (/\ ZipStubbed(input)
     /\ check_file_type(buf) = "Zip"
     /\ call.fn = "ZipReader::read_archive"
     /\ Returned) =>
        /\ check_zip(buf).pos = Len(input.stub)
        /\ result = "Ok"
        /\ files = ZipExpectedFrom(input.entries, Len(input.stub))

(***************************************************************************)
(* RAR4 file headers                                                       *)
(***************************************************************************)
Rar4Returned == Returned /\ call.fn = "Rar4Reader::read_archive"

\* a FILE_HEAD block the walker reads field by field to the end of its data:
\* no large sizes, no salt, 9 bytes between name and data, the data complete
R4Regular(f) ==
    /\ ~R4Large(f)
    /\ ~R4Salted(f)
    /\ f.pad = 9
    /\ Len(f.data) = f.pack
    /\ Len(f.name) > 0

R4HasNul(f) == \E i \in 1 .. Len(f.name) : f.name[i] = 0

\* the directory bit of FILE_ATTR
R4IsDirectory(f) == BitSet(f.attr, 16)

R4IsFile(f) == ~R4IsDirectory(f)

\* the name bytes up to the first zero byte
R4NameCut(name) ==
    LET nul == {i \in 1 .. Len(name) : name[i] = 0}
    IN  IF nul = {} THEN name ELSE SubSeq(name, 1, SetMin(nul) - 1)

Filepaths(fs) == [i \in 1 .. Len(fs) |-> fs[i].filepath]

R4Names(es) == [i \in 1 .. Len(es) |-> R4NameCut(es[i].name)]

\* C14: on a RAR4 archive of regular FILE_HEAD blocks with NUL-ended names,
\* the returned list holds exactly the blocks whose FILE_ATTR directory bit
\* is clear, in archive order.
C14_Rar4DirectoryBit ==
    (/\ input.kind = "rar4"
     /\ input.cut = 0
     /\ input.tail = R4End
     /\ \A i \in 1 .. Len(input.entries) : R4Regular(input.entries[i]) /\ R4HasNul(input.entries[i])
     /\ Rar4Returned) =>
        /\ result = "Ok"
        /\ Filepaths(files) = R4Names(SelectSeq(input.entries, R4IsFile))

R4Archived(f) == BitSet(f.attr, 32) /\ R4IsFile(f)

\* C15: on a RAR4 archive of regular FILE_HEAD blocks for files, each
\* emitted filepath is the name bytes cut at the first zero byte, and the
\* whole name when it holds no zero byte.
C15_Rar4NameBytes ==
    (/\ input.kind = "rar4"
     /\ input.cut = 0
     /\ input.tail = R4End
     /\ \A i \in 1 .. Len(input.entries) : R4Regular(input.entries[i]) /\ R4Archived(input.entries[i])
     /\ Rar4Returned) =>
        /\ result = "Ok"
        /\ Filepaths(files) = R4Names(input.entries)
        /\ \A i \in 1 .. Len(files) : input.entries[i].name[1] # 0 => files[i].filepath # <<>>

Rar4Walks == {115, 116, 122}

\* C16: in the walk of a RAR4 archive of regular FILE_HEAD blocks, a block
\* of a type other than MAIN_HEAD, FILE_HEAD and NEWSUB_HEAD is the last
\* block read, and no MemberFile has its data behind such a block.
C16_Rar4EndStopsWalk ==
    (/\ input.kind = "rar4"
     /\ input.cut = 0
     /\ \A i \in 1 .. Len(input.entries) : R4Regular(input.entries[i]) /\ R4HasNul(input.entries[i])
     /\ call.fn = "Rar4Reader::read_archive"
     /\ pc \in {"rar4", "returned"}) =>
        \A i \in 1 .. Len(trace) :
            trace[i].type \notin Rar4Walks =>
                /\ i = Len(trace)
                /\ pc = "rar4" => Len(buf) <= offset + 7
                /\ \A k \in 1 .. Len(files) : files[k].offset < trace[i].pos

(***************************************************************************)
(* The RAR5 block walk                                                     *)
(***************************************************************************)
Rar5Walking == call.fn = "Rar5Reader::read_archive" /\ pc \in {"rar5", "returned"}

\* C17: the RAR5 block walk terminates: it reads no block position twice,
\* the blocks it passes are file and service headers in rising position, and
\* a block of another type is the last one read.
C17_Rar5WalkTerminates ==
    Rar5Walking =>
        /\ \A i \in 1 .. Len(trace) : \A j \in i + 1 .. Len(trace) : trace[i].pos # trace[j].pos
        /\ \A i \in 1 .. Len(trace) : trace[i].type \notin {2, 3} => i = Len(trace) /\ pc = "returned"

\* the block of a well-formed archive that starts at position o (0 if none)
Rar5EntryAt(in, o) ==
    LET at == {i \in 1 .. Len(in.entries) : Rar5BlockStart(in.entries, i) = o}
    IN  IF at = {} THEN 0 ELSE CHOOSE i \in at : TRUE

Finished(fn) == pc = "finished" /\ call.fn = fn

\* C11: after a parse failure the caller has the error alone:
\* process_archive returns no list, and the files vector given to
\* read_archive holds no MemberFile of the failed run.
C11_ErrorWithoutMembers ==
    /\ (Finished("ArchiveManager::process_archive") /\ call.ret.kind # "Ok") =>
          call.ret.files = <<>> /\ files = <<>>
    /\ (Returned /\ result \notin {"Ok", "Panic"}) => files = <<>>

\* sig occurs somewhere in data
Occurs(data, sig) ==
    \E i \in 0 .. Len(data) - Len(sig) : Slice(data, i, i + Len(sig)) = sig

\* C12: detect_rar_version returns Rar5 for a buffer that starts with the
\* RAR5 signature, Rar4 for one that starts with the RAR4 signature, and
\* Unknown exactly when neither signature occurs in the buffer;
\* RarHandler::read_archive returns UnsupportedFormat exactly in the Unknown
\* case and otherwise returns Ok with the detected version.
C12_RarHandlerByVersion ==
    /\ call.fn = "RarHandler::detect_rar_version" =>
          /\ StartsWith(buf, RAR5_SIGNATURE) => call.ret = "Rar5"
          /\ StartsWith(buf, RAR4_SIGNATURE) => call.ret = "Rar4"
          /\ call.ret = "Unknown" <=> ~Occurs(buf, RAR5_SIGNATURE) /\ ~Occurs(buf, RAR4_SIGNATURE)
          /\ call.ret \in {"Rar4", "Rar5", "Unknown"}
    /\ Finished("RarHandler::read_archive") =>
          /\ call.ret.kind = "UnsupportedFormat"
                <=> ~Occurs(buf, RAR5_SIGNATURE) /\ ~Occurs(buf, RAR4_SIGNATURE)
          /\ call.ret.kind # "UnsupportedFormat" =>
                /\ call.ret.kind = "Ok"
                /\ call.ret.version = call.reader
                /\ call.reader \in {"Rar4", "Rar5"}
                /\ StartsWith(buf, RAR5_SIGNATURE) => call.reader = "Rar5"
                /\ StartsWith(buf, RAR4_SIGNATURE) => call.reader = "Rar4"

(***************************************************************************)
(* Member names                                                            *)
(***************************************************************************)
\* the path separators of archive member names: '/' and '\'
PathSeparators == {47, 92}

\* the part of path that follows its last path separator
BaseName(path) == AfterLast(path, PathSeparators)

\* C24: every MemberFile emitted by a parser has filename equal to the part
\* of filepath that follows the last path separator, so filename holds no
\* path separator and equals filepath only for entries at the archive root.
C24_FilenameIsBaseName ==
    pc \in {"zip", "rar4", "rar5", "returned"} =>
        \A i \in 1 .. Len(files) :
            /\ files[i].filename = BaseName(files[i].filepath)
            /\ \A k \in 1 .. Len(files[i].filename) :
                  files[i].filename[k] \notin PathSeparators

(***************************************************************************)
(* Page navigation (AppState, PageManager, KeyboardHandler)                *)
(***************************************************************************)
\* the number of files one page shows
PageWidth(mode) == IF mode = "Single" THEN 1 ELSE 2

\* C26: next_page moves the index forward by the page width (2 in Double
\* mode, 1 in Single mode) when a further page exists and leaves it alone
\* otherwise, previous_page moves it back by the same amount, and a
\* previous_page right after a next_page that moved (or a next_page right
\* after a previous_page that moved) restores the index.
C26_PageStepReversible ==
    LET w == PageWidth(state.display_mode)
        idx == state.current_file_index
    IN  /\ op.fn = "next_page" =>
              /\ idx = IF op.before + w < state.total_files THEN op.before + w ELSE op.before
              /\ idx # op.before => previous_page(state).current_file_index = op.before
        /\ op.fn = "previous_page" =>
              /\ idx = IF op.before >= w THEN op.before - w ELSE op.before
              /\ idx # op.before => next_page(state).current_file_index = op.before

\* a next_page that moved two files on in Double mode
C26_Witness ==
    /\ state.display_mode = "Double"
    /\ op.fn = "next_page"
    /\ state.current_file_index = op.before + 2

\* the files one page shows, by their 0-based positions
Displayed(s) ==
    {i \in s.current_file_index .. s.current_file_index + PageWidth(s.display_mode) - 1 :
        i < s.total_files}

\* C27: after goto_last_page on two or more files, in either mode and from
\* any index, total_files - 2 <= current_file_index < total_files, the last
\* file is among the displayed pages and has_next_page is false; after
\* goto_first_page the index is 0.
C27_LastAndFirstPage ==
    /\ op.fn = "goto_last_page" /\ state.total_files >= 2 =>
          /\ state.total_files - 2 <= state.current_file_index
          /\ state.current_file_index < state.total_files
          /\ state.total_files - 1 \in Displayed(state)
          /\ ~has_next_page(state)
    /\ op.fn = "goto_first_page" => state.current_file_index = 0

\* goto_last_page in Double mode on an even number of files, from another
\* index: the last spread starts two files before the end
C27_Witness ==
    /\ op.fn = "goto_last_page"
    /\ state.display_mode = "Double"
    /\ state.total_files >= 2
    /\ state.total_files % 2 = 0
    /\ op.before # state.current_file_index
    /\ state.current_file_index = state.total_files - 2

\* AppState::current_file: archive_files.get(current_file_index) is Some
current_file_is_some(s) == s.current_file_index < Len(s.archive_files)

\* C28: after any sequence of AppState and PageManager operations
\* total_files is the number of archive_files, the index is below
\* total_files whenever files are loaded and 0 when none are, so that
\* current_file() is Some for a loaded archive.
C28_IndexWithinFiles ==
    /\ state.total_files = Len(state.archive_files)
    /\ state.total_files > 0 => state.current_file_index < state.total_files
    /\ state.total_files = 0 => state.current_file_index = 0
    /\ state.archive_files # <<>> => current_file_is_some(state)

\* goto_page asked for a page past the end of a loaded archive, away from
\* the first page
C28_Witness ==
    /\ op.fn = "goto_page"
    /\ state.total_files > 0
    /\ op.page >= state.total_files
    /\ state.current_file_index > 0

(***************************************************************************)
(* Loads that complete out of order                                        *)
(***************************************************************************)
\* C29: once every load started by a drop has completed, the state holds
\* the buffer and the member list of the path dropped last (the one in
\* current_file_path), whatever order the FileLoaded results arrived in; at
\* every moment the buffer and the member list come from one load; a failed
\* load leaves no files and index 0.
C29_LatestDropWins ==
    /\ tasks = <<>> /\ op.fn = "handle_file_loaded" =>
          /\ state.archive_buffer = load_file_async(state.current_file_path).buffer
          /\ state.archive_files = load_file_async(state.current_file_path).files
    /\ \/ state.archive_buffer = <<>> /\ state.archive_files = <<>>
       \/ \E path \in Paths :
             /\ state.archive_buffer = load_file_async(path).buffer
             /\ state.archive_files = load_file_async(path).files
    /\ op.fn = "handle_file_loaded" /\ op.kind # "Ok" =>
          state.archive_files = <<>> /\ state.current_file_index = 0

(***************************************************************************)
(* Decompression dispatch                                                  *)
(***************************************************************************)
\* the types ArchiveManager::decompress_file_data rejects by their tag
RejectedByType == {"Rar4", "Rar5", "Unsupported"}

\* C23: decompress_file_data reads the raw slice for Uncompress, calls
\* uncomp_deflate for Deflate and Deflate64, and returns DecompressionError
\* without reading the buffer for Rar4, Rar5 and Unsupported;
\* is_supported_compression is true exactly for the types the dispatch does
\* not reject by type; and the viewer's extract_single_image_from_archive,
\* which dispatches on ctype as well, accepts the same set of types.
C23_DispatchAgrees ==
    op.fn = "decompress_file_data" =>
        LET file == op.file
            buffer == state.archive_buffer
        IN  /\ file.ctype = "Uncompress" =>
                  op.ret = read_uncompressed_data(buffer, file.offset, file.size, overflow_checks)
            /\ file.ctype \in {"Deflate", "Deflate64"} =>
                  op.ret = uncomp_deflate(buffer, file.offset, file.size, overflow_checks,
                                          Inflates(Slice(buffer, file.offset,
                                                         file.offset + file.size)))
            /\ file.ctype \in RejectedByType =>
                  op.ret.kind = "DecompressionError" /\ ~op.ret.sliced
            /\ is_supported_compression(file.ctype) <=> file.ctype \notin RejectedByType
            /\ extract_single_image_from_archive(buffer, file).kind = "UnsupportedCompression"
                  <=> ~is_supported_compression(file.ctype)

(***************************************************************************)
(* The viewer: member records, page loads and their archive                *)
(***************************************************************************)
\* the records the viewer derives from the file at path: what ArchiveLoaded
\* keeps of load_archive or of load_single_image_as_archive
MembersOf(path) ==
    LET archive == IF is_archive_file(path) THEN load_archive(path)
                   ELSE IF is_image_file(path) THEN load_single_image_as_archive(path)
                   ELSE Loaded("Err", <<>>, <<>>)
    IN  {f \in InFlight(archive.files) : is_image_filename(f.filename)}

\* C21: every image load started by load_current_page_images reads, from
\* the file it was given (current_file when it started), members whose
\* records were derived from that same file, also when a file is dropped or
\* a navigation key is pressed while an archive load is in flight or after
\* an archive load has failed.
C21_RecordsMatchArchive ==
    \A t \in InFlight(tasks) :
        t.msg = "ImagesLoaded" => \A f \in InFlight(t.files) : f \in MembersOf(t.path)

\* a member whose range lies in the buffer and whose data the viewer can
\* decode: stored or deflated, a well-formed stream, a picture
ValidMember(buffer, f) ==
    /\ f.offset + f.size <= Len(buffer)
    /\ f.ctype \in {"Uncompress", "Deflate"}
    /\ f.ctype = "Deflate" => Inflates(Slice(buffer, f.offset, f.offset + f.size))
    /\ IsImage(Slice(buffer, f.offset, f.offset + f.size))

\* an ImagesLoaded message that carries the error of a failed extraction
\* is handled
FailedExtraction ==
    \E t \in InFlight(tasks) :
        /\ t.msg = "ImagesLoaded"
        /\ load_images_from_archive(t.path, t.files).kind
               \in {"OutOfBounds", "DecompressionError", "DecodeError"}
        /\ tasks' = Without(tasks, t)

\* C22: a failed extraction of one member (OutOfBounds, decompression error
\* or image decode error) leaves the member list, the current index and the
\* total count unchanged, and the extraction of every other member whose
\* range and data are valid still succeeds afterwards.
C22_FailedExtractionIsLocal ==
    [][FailedExtraction =>
          /\ viewer'.archive_files = viewer.archive_files
          /\ viewer'.current_file_index = viewer.current_file_index
          /\ viewer'.total_files = viewer.total_files
          /\ \A f \in InFlight(viewer'.archive_files) :
                viewer'.current_file # NoPath /\ ValidMember(FileBytes(viewer'.current_file), f) =>
                    extract_single_image_from_archive(FileBytes(viewer'.current_file), f).kind
                        = "Ok"]_vars

\* the error of a failed extraction has been handled, no load is in flight,
\* and the archive on display still has its members, a valid one among them
C22_Witness ==
    /\ viewer.status_message = "image error"
    /\ tasks = <<>>
    /\ viewer.archive_files = load_archive(viewer.current_file).files
    /\ viewer.current_file_index > 0
    /\ \E f \in InFlight(viewer.archive_files) : ValidMember(FileBytes(viewer.current_file), f)

\* the handles of the page at current_file_index, as load_current_page_images
\* and load_images_from_archive produce them
HandlesOfPage(v) ==
    load_images_from_archive(v.current_file,
                             IF v.display_mode = "Single"
                             THEN Get(v.archive_files, v.current_file_index)
                             ELSE Get(v.archive_files, v.current_file_index)
                                  \o Get(v.archive_files, v.current_file_index + 1))

\* C30: once every page-image load in flight has completed, the displayed
\* image_handles are those of the pages at current_file_index, whatever
\* order the ImagesLoaded messages arrived in.  (Stated for an archive that
\* is the one named by current_file and whose current page loads.)
C30_HandlesOfCurrentPage ==
    /\ tasks = <<>>
    /\ viewer.current_file # NoPath
    /\ viewer.archive_files # <<>>
    /\ \A f \in InFlight(viewer.archive_files) : f \in MembersOf(viewer.current_file)
    /\ HandlesOfPage(viewer).kind = "Ok"
    => viewer.image_handles = HandlesOfPage(viewer).handles

(***************************************************************************)
(* The single instance                                                     *)
(***************************************************************************)
\* the processes that got Primary from try_become_primary and are running
Primaries == {p \in Procs : procs[p].pc = "running" /\ procs[p].result = "Primary"}

\* C25: at most one running process is the primary instance, it has a live
\* listener bound to the socket path, and a call that returned Secondary
\* with a file path sent it to a primary.
C25_SinglePrimary ==
    /\ Cardinality(Primaries) <= 1
    /\ \A p \in Primaries : procs[p].listener /\ socket.file = p
    /\ \A p \in Procs :
          procs[p].result = "Secondary" /\ procs[p].file_path # NoPath =>
              procs[p].sent \in Procs /\ procs[procs[p].sent].result = "Primary"

(***************************************************************************)
(* The spread of Double mode                                               *)
(***************************************************************************)
\* C35: in Double display mode the spread starts at an even index: on a
\* loaded archive, after any sequence of next_page, previous_page,
\* next_file, previous_file, goto_last_page and set_display_mode,
\* display_mode = Double implies that current_file_index is even.
C35_DoubleStartsEven ==
    viewer.archive_files # <<>> /\ viewer.display_mode = "Double" =>
        viewer.current_file_index % 2 = 0

(***************************************************************************)
(* RAR4 block headers                                                      *)
(***************************************************************************)
\* C34: the header flags the RAR4 walker uses for a block are the 2-byte
\* little-endian field at bytes 3-4 of the 7-byte block header, so that
\* LHD_LARGE (0x0100), salt (0x0400) and ext-time (0x1000) are seen exactly
\* when they are set in the archive.
C34_Rar4FlagsField ==
    pc = "rar4" /\ Len(buf) > offset + 7 =>
        LET hflags == rar4_check_headertype(buf, offset).hflags
            field == ReadU16(buf, offset + 3)
        IN  /\ hflags = field
            /\ \A bit \in {256, 1024, 4096} : BitSet(hflags, bit) <=> BitSet(field, bit)

(***************************************************************************)
(* Termination of the ZIP walk                                             *)
(***************************************************************************)
\* the walkers as running code: a loop that can take its next iteration
\* takes it
WalkSpec == Init /\ [][Next]_vars /\ WF_vars(ZipBlock)

\* one iteration of the ZIP walk seen from outside: with `stop` it returns Ok
\* and the entries found so far, otherwise it fails on the header it has
\* read or moves the offset forward by a whole header at least
ZipIteration(stop) ==
    IF stop
    THEN pc' = "returned" /\ result' = "Ok" /\ files' = files
    ELSE \/ pc' = "returned" /\ result' = "CorruptedArchive" /\ files' = files
         \/ pc' = "zip" /\ offset' >= offset + 30

ZipNoSignature == Slice(buf, offset, offset + 4) # ZIP_SIGNATURE

C32_Rar4WalkAdvances ==
    [][pc = "rar4" =>
          \/ pc' = "returned"
          \/ pc' = "rar4" /\ offset' > offset]_vars

(***************************************************************************)
(* The advance of the RAR5 walk                                            *)
(***************************************************************************)
\* the position the archive declares for the block behind the one at pos:
\* CRC32, the header-size vint, the declared header size and the declared
\* data size (machine-word arithmetic)
Rar5DeclaredNext(data, pos) ==
    LET c == Rar5Fields(data, Rar5Prologue(data, pos, FALSE), FALSE)
        data_size == IF BitSet(c.v[3], 2) THEN c.v[5] ELSE 0
    IN  (pos + 4 + c.l[1] + c.v[1] + data_size) % Word

\* C37: for every RAR5 file or service block the walker's advance equals
\* 4 + length of the header-size vint + declared header size + data-size:
\* the next block header is read at the position the archive declares.
C37_Rar5AdvanceAsDeclared ==
    [][pc = "rar5" /\ pc' = "rar5" => offset' = Rar5DeclaredNext(buf, offset)]_vars

(***************************************************************************)
(* The format detectors and the parser's anchor                            *)
(***************************************************************************)
\* ImageViewer::is_rar5 (main.rs): the RAR5 signature anywhere in the buffer
is_rar5(buffer) ==
    Len(buffer) >= Len(RAR5_SIGNATURE) /\ HasWindow(buffer, RAR5_SIGNATURE)

\* the RAR version a detector's answer names ("none" for Zip, Unsupported,
\* Unknown and for a detector that fails)
RarVersionOf(answer) == IF answer \in {"Rar4", "Rar5"} THEN answer ELSE "none"

\* the parser of `version` anchors at a signature of that version
AnchorsAt(data, version) ==
    LET s == IF version = "Rar5" THEN rar5_check_rarsign(data) ELSE rar4_check_rarsign(data)
        sig == IF version = "Rar5" THEN RAR5_SIGNATURE ELSE RAR4_SIGNATURE
    IN  /\ ~s.panic
        /\ s.found
        /\ s.pos + Len(sig) <= Len(data)
        /\ Slice(data, s.pos, s.pos + Len(sig)) = sig

\* C33: for every buffer check_file_type, RarHandler::detect_rar_version and
\* the viewer's is_rar5 name the same RAR version, and the parser that is
\* then run anchors (check_rarsign position) at a signature of that version.
C33_DetectorsAgree ==
    call.fn = "check_file_type" =>
        LET version == RarVersionOf(call.ret)
        IN  /\ RarVersionOf(detect_rar_version(buf)) = version
            /\ is_rar5(buf) <=> version = "Rar5"
            /\ version # "none" => AnchorsAt(buf, version)

(***************************************************************************)
(* Paths sent by secondary instances                                       *)
(***************************************************************************)
\* a sequence without repetitions
NoRepeats(seq) == \A i, j \in 1 .. Len(seq) : seq[i] = seq[j] => i = j

\* pre is the beginning of seq
IsPrefix(pre, seq) == Len(pre) <= Len(seq) /\ pre = SubSeq(seq, 1, Len(pre))

\* update of primary q has been given the path that secondary p wrote
DeliveredTo(p, q) == \E i \in 1 .. Len(procs[q].received) : procs[q].received[i].from = p

\* C31: every non-empty file path line that a secondary instance writes to
\* the socket is eventually delivered to the primary's update as
\* IpcFileReceived, exactly once, and the paths are delivered in the order
\* in which they were accepted and read, as long as the primary runs with
\* its listener thread and its subscription poll being scheduled.
C31_PathsDelivered ==
    /\ [](\A q \in Procs : /\ NoRepeats(procs[q].received)
                           /\ IsPrefix(procs[q].received, procs[q].read))
    /\ \A p, q \in Procs :
          (procs[p].sent = q) ~> (DeliveredTo(p, q) \/ procs[q].pc = "exited")

====
